---- MODULE Spec2Model ----
(***************************************************************************)
(* Model of torch/fx/experimental/proxy_tensor.py: the slot registry       *)
(* (set_proxy_slot / get_proxy_slot / has_proxy_slot), thunks, tensor      *)
(* tracking (track_tensor / track_tensor_tree), the operation recording    *)
(* algorithm (proxy_call) and the wrap_key framing of one tracing session. *)
(*                                                                         *)
(* Runtime values are records with a field k:                              *)
(*   [k |-> "T", id |-> i]          the tensor heap[i]                     *)
(*   [k |-> "S", id |-> n, w |-> j] a SymInt wrapper object j of SymNode n *)
(*   [k |-> "O", id |-> i]          a script object                        *)
(*   [k |-> "L", id |-> v]          plain data (an int)                    *)
(*   [k |-> "B", b |-> v]           plain data (a bool)                    *)
(*   [k |-> "P", id |-> i]          the Proxy of graph node i              *)
(* Two specifications share the variables: SpecSlots drives the registry   *)
(* and thunk functions directly, Spec drives one tracing session.          *)
(***************************************************************************)
EXTENDS Integers, Sequences, FiniteSets, TLC

VARIABLES graph,                 \* tracer.graph: the sequence of nodes
          tensor_tracker,        \* tracer.tensor_tracker
          symnode_tracker,       \* tracer.symnode_tracker (keyed by SymNode)
          script_object_tracker, \* tracer.script_object_tracker
          thunks,                \* the Thunk objects allocated so far
          heap,                  \* the runtime tensors allocated so far
          config,                \* the session's configuration (fixed)
          proxy_mode,            \* the recording layer's fields
          CURRENT_DECOMPOSITION_TABLE,
          phase,                 \* position of the session
          last,                  \* the call most recently made
          ret,                   \* what that call returned or raised
          modes,                 \* the interception layers and the open scopes
          makefx,                \* the _MakefxTracer's per-session fields
          module_tracer,         \* the _ModuleStackTracer's fields
          function_modes,        \* the torch-function mode stack
          torch_fn               \* tracer.torch_fn_metadata and tracer.torch_fn_counts

vars == <<graph, tensor_tracker, symnode_tracker, script_object_tracker,
          thunks, heap, config, proxy_mode, CURRENT_DECOMPOSITION_TABLE,
          phase, last, ret, modes, makefx, module_tracer,
                   function_modes, torch_fn>>

-----------------------------------------------------------------------------
(* Bounds of the model *)

MaxNodes == 5
MaxTensors == 4
MaxSlotNodes == 2
MaxSyms == 3

(* Program constants *)

CONSTANT_NUMEL_LIMIT == 1

-----------------------------------------------------------------------------
(* Values *)

T(i) == [k |-> "T", id |-> i]
S(n, j) == [k |-> "S", id |-> n, w |-> j]
O(i) == [k |-> "O", id |-> i]
L(v) == [k |-> "L", id |-> v]
B(b) == [k |-> "B", b |-> b]
P(i) == [k |-> "P", id |-> i]
E(name) == [k |-> "E", name |-> name]

None == [k |-> "None"]
no_default == [k |-> "_NoDefault"]
NotImplemented == [k |-> "NotImplemented"]

isinstance(x, kind) == x.k = kind

\* _ProxyTensor(proxy, constant): constant is None or a captured tensor,
\* held by value as its element count and contents
_ProxyTensor(proxy, constant) == [k |-> "_ProxyTensor", proxy |-> proxy, constant |-> constant]
Const(numel, data) == [k |-> "C", numel |-> numel, data |-> data]

Returned(v) == [tag |-> "return", val |-> v]
Raised(name) == [tag |-> "raise", val |-> E(name)]
NoCall == [op |-> "none"]

\* a mapping (dict) with one more entry
Put(d, key, v) == [x \in DOMAIN d \cup {key} |-> IF x = key THEN v ELSE d[x]]
EmptyDict == [x \in {} |-> None]

\* no torch-function mode is on the stack
NoFunctionModes == <<>>

\* PythonKeyTracer.__init__: torch_fn_metadata = None, torch_fn_counts = {}
NoTorchFn == [torch_fn_metadata |-> None, torch_fn_counts |-> EmptyDict]

\* the tracer's state, passed through the operators below
session == <<heap, config, proxy_mode, CURRENT_DECOMPOSITION_TABLE, phase, modes, makefx,
             module_tracer,
                   function_modes, torch_fn>>

\* the class of a tracer's symnode_tracker: PythonKeyTracer.__init__ makes a
\* _SymNodeDict, DecompositionInterpreter.__init__ gives its
\* _GraphAppendingTracerEx a weakref.WeakKeyDictionary
symnode_tracker_class(tracer_class) ==
    IF tracer_class = "_GraphAppendingTracerEx" THEN "WeakKeyDictionary" ELSE "_SymNodeDict"

Tracer == [graph |-> graph, tensor_tracker |-> tensor_tracker,
           symnode_tracker_class |-> symnode_tracker_class(config.tracer),
           symnode_tracker |-> symnode_tracker,
           script_object_tracker |-> script_object_tracker, thunks |-> thunks]

-----------------------------------------------------------------------------
(* Graph nodes and proxies *)

Node(op, target, args) == [op |-> op, target |-> target, args |-> args, val |-> None]

\* Tracer.create_arg: a Proxy becomes its node, plain data stays, a SymInt
\* must be a literal constant, and a tensor or script object met without a
\* proxy is interned as an attribute of the root and read by a get_attr node
NeedsGetAttr(a) == isinstance(a, "T") \/ isinstance(a, "O")

RECURSIVE create_args(_, _, _)
create_args(g, args, done) ==
    IF Len(done) = Len(args) THEN [graph |-> g, args |-> done]
    ELSE LET a == args[Len(done) + 1] IN
         IF NeedsGetAttr(a)
         THEN create_args(Append(g, Node("get_attr", "_tensor_constant", <<a>>)),
                          args, Append(done, P(Len(g) + 1)))
         ELSE create_args(g, args, Append(done, a))

\* tracer.create_proxy(kind, target, args, kwargs): appends one node after
\* the nodes of its arguments and returns the node's Proxy
create_proxy(tr, kind, target, args) ==
    LET ca == create_args(tr.graph, args, <<>>)
        g == Append(ca.graph, Node(kind, target, ca.args))
    IN [tr |-> [tr EXCEPT !.graph = g], v |-> P(Len(g))]

\* extract_val: what is kept of a value as the node's meta['val']: a
\* snapshot of a tensor's metadata without its data, other values as they are
extract_val(val, hp) ==
    IF isinstance(val, "T")
    THEN [k |-> "TensorMeta", typ |-> hp[val.id].typ, numel |-> hp[val.id].numel,
          meta |-> hp[val.id].meta]
    ELSE IF isinstance(val, "S") THEN [k |-> "S", id |-> val.id]
    ELSE val

\* set_meta(proxy, val)
set_meta(tr, proxy, val, hp) ==
    [tr EXCEPT !.graph[proxy.id].val = extract_val(val, hp)]

-----------------------------------------------------------------------------
(* Thunks *)

Thunk(i) == [k |-> "Thunk", id |-> i]

\* the closures the module thunkifies:
\*   lambda: proxy                                 (track_tensor_tree)
\*   lambda x, i: set_meta(create_proxy(query, (proxy, i)), x)  (track_tensor)
Closure(fn, proxy, args, x) == [k |-> "Closure", fn |-> fn, proxy |-> proxy, args |-> args, x |-> x]

\* the key an object has in its table: a tensor and a script object are keyed
\* by identity; a SymInt is keyed by its node in a _SymNodeDict (key.node) and
\* by the wrapper object itself in a WeakKeyDictionary
key_of(tr, obj) ==
    IF isinstance(obj, "S") /\ tr.symnode_tracker_class = "WeakKeyDictionary"
    THEN obj ELSE obj.id

\*   partial(_compute_proxy, func=func, args=args, out=out)  (__sym_dispatch__)

ComputeProxy(func, args, out) ==
    [k |-> "Closure", fn |-> "_compute_proxy", proxy |-> None, args |-> args, x |-> out,
     func |-> func]

RECURSIVE force(_, _, _)

\* the n_args of _compute_proxy: get_proxy_slot(a, tracer).force().node for
\* a symbolic scalar, a itself otherwise
RECURSIVE force_args(_, _, _, _)
force_args(tr, args, done, hp) ==
    IF Len(done) = Len(args) THEN [tr |-> tr, v |-> done]
    ELSE IF isinstance(args[Len(done) + 1], "S")
    THEN LET f == force(tr, tr.symnode_tracker[key_of(tr, args[Len(done) + 1])], hp)
         IN force_args(f.tr, args, Append(done, f.v), hp)
    ELSE force_args(tr, args, Append(done, args[Len(done) + 1]), hp)

\* the node is put in front of the graph's nodes
create_node_first(tr, n, func, out, hp) ==
    [tr |-> [n.tr EXCEPT !.graph = <<[Node("call_function", func, n.v) EXCEPT
                                        !.val = extract_val(out, hp)]>> \o @],
     v |-> P(1)]

\* tracer.create_node("call_function", func, n_args, {}) of _compute_proxy,
\* with set_meta(p_out, out)
create_node(tr, n, func, out, hp) ==
    [tr |-> set_meta(create_proxy(n.tr, "call_function", func, n.v).tr,
                     P(Len(n.tr.graph) + 1), out, hp),
     v |-> P(Len(n.tr.graph) + 1)]

\* an argument that names a node made after the first before nodes
shift_arg(a, before) == IF isinstance(a, "P") /\ a.id > before THEN P(a.id + 1) ELSE a

\* the node of the computation is made before the nodes of the symbolic
\* scalars it takes
_compute_proxy_before_sources(tr, func, args, out, hp) ==
    LET n == force_args(tr, args, <<>>, hp)
        before == Len(tr.graph)
    IN [tr |-> [n.tr EXCEPT !.graph =
                   SubSeq(@, 1, before)
                   \o <<[Node("call_function", func,
                               [i \in DOMAIN n.v |-> shift_arg(n.v[i], before)])
                            EXCEPT !.val = extract_val(out, hp)]>>
                   \o SubSeq(@, before + 1, Len(@))],
        v |-> P(before + 1)]

\* ProxySymDispatchMode._compute_proxy(func, args, out)
_compute_proxy(tr, func, args, out, hp) ==
    create_node(tr, force_args(tr, args, <<>>, hp), func, out, hp)

call_closure(tr, f, hp) ==
    IF f.fn = "lambda: proxy" THEN [tr |-> tr, v |-> f.proxy]
    ELSE IF f.fn = "_compute_proxy" THEN _compute_proxy(tr, f.func, f.args, f.x, hp)
    ELSE LET c == create_proxy(tr, "call_function", f.fn, <<f.proxy>> \o f.args)
         IN [tr |-> set_meta(c.tr, c.v, f.x, hp), v |-> c.v]

\* thunkify(f, *args): a new Thunk holding the unevaluated computation
thunkify(tr, f) ==
    [tr |-> [tr EXCEPT !.thunks = Append(@, [f |-> f, r |-> None])],
     v |-> Thunk(Len(tr.thunks) + 1)]

\* Thunk.force(): the first call computes and caches, later calls return
\* the cached value
force(tr, th, hp) ==
    IF tr.thunks[th.id].f = None THEN [tr |-> tr, v |-> tr.thunks[th.id].r]
    ELSE LET c == call_closure(tr, tr.thunks[th.id].f, hp)
         IN [tr |-> [c.tr EXCEPT !.thunks[th.id] = [f |-> None, r |-> c.v]], v |-> c.v]

\* a Thunk that nothing refers to any more is reclaimed
collect(tr) ==
    LET n == Len(tr.thunks) IN
    IF n > 0 /\ \A key \in DOMAIN tr.symnode_tracker : tr.symnode_tracker[key] # Thunk(n)
    THEN [tr EXCEPT !.thunks = SubSeq(@, 1, n - 1)]
    ELSE tr

-----------------------------------------------------------------------------
(* Slot registry *)

\* which of the three tables holds an object, and the key it has there:
\* tensors and script objects by identity, SymInts by their node (_SymNodeDict)
tracker_of(obj) ==
    IF isinstance(obj, "T") THEN "tensor_tracker"
    ELSE IF isinstance(obj, "O") THEN "script_object_tracker"
    ELSE "symnode_tracker"

in_tracker(tr, obj) == key_of(tr, obj) \in DOMAIN tr[tracker_of(obj)]

slot_of(tr, obj) == IF in_tracker(tr, obj) THEN tr[tracker_of(obj)][key_of(tr, obj)] ELSE None

set_proxy_slot_no_clobber(tr, obj, proxy) ==
    IF in_tracker(tr, obj) THEN tr
    ELSE [tr EXCEPT ![tracker_of(obj)] = Put(@, key_of(tr, obj), proxy)]

set_proxy_slot_clobber(tr, obj, proxy) ==
    [tr EXCEPT ![tracker_of(obj)] = Put(@, key_of(tr, obj), proxy)]

set_proxy_slot(tr, obj, proxy) ==
    IF isinstance(obj, "T")
    THEN [tr EXCEPT !.tensor_tracker = Put(@, obj.id, proxy)]
    ELSE IF isinstance(obj, "O")
    THEN [tr EXCEPT !.script_object_tracker = Put(@, obj.id, proxy)]
    ELSE IF ~ in_tracker(tr, obj)
    THEN [tr EXCEPT !.symnode_tracker = Put(@, key_of(tr, obj), proxy)]
    ELSE tr

\* the transforms the module passes to get_proxy_slot
transform(tr, fn, value, hp) ==
    IF fn = "lambda x: x.proxy" THEN [tr |-> tr, v |-> value.proxy]
    ELSE IF fn = "lambda _: True" THEN [tr |-> tr, v |-> B(TRUE)]
    ELSE IF fn = "lambda e: e.force()" THEN force(tr, value, hp)
    ELSE [tr |-> tr, v |-> value]

get_proxy_slot_transform_default(tr, obj, default, fn, hp) ==
    IF ~ in_tracker(tr, obj)
    THEN IF default = no_default
         THEN [tr |-> tr, ret |-> Raised("RuntimeError")]
         ELSE [tr |-> tr, ret |-> Returned(IF fn = "lambda _: True" THEN B(TRUE) ELSE default)]
    ELSE LET res == transform(tr, fn, tr[tracker_of(obj)][key_of(tr, obj)], hp)
         IN [tr |-> res.tr, ret |-> Returned(res.v)]

get_proxy_slot(tr, obj, default, fn, hp) ==
    IF ~ in_tracker(tr, obj)
    THEN IF default = no_default
         THEN [tr |-> tr, ret |-> Raised("RuntimeError")]
         ELSE [tr |-> tr, ret |-> Returned(default)]
    ELSE LET res == transform(tr, fn, tr[tracker_of(obj)][key_of(tr, obj)], hp)
         IN [tr |-> res.tr, ret |-> Returned(res.v)]

has_proxy_slot(tr, obj, hp) ==
    get_proxy_slot(tr, obj, B(FALSE), "lambda _: True", hp).ret.val.b

-----------------------------------------------------------------------------
(* Runtime tensors *)

\* a tensor's symbolic metadata: for each size, each stride, the element
\* count and the storage offset, the SymNode that holds it, or 0 for a plain int
Meta(size, stride, numel, storage_offset, sparse) ==
    [size |-> size, stride |-> stride, numel |-> numel,
     storage_offset |-> storage_offset, sparse |-> sparse]
StaticMeta == Meta(<<0>>, <<0>>, 0, 0, FALSE)

\* a tensor: its type, its element count, its contents (NoData for a
\* simulated tensor, which has no storage) and the attribute proxy_call
\* sets on it
NoData == -1
Tensor(typ, numel, data, meta) ==
    [typ |-> typ, numel |-> numel, data |-> data, meta |-> meta, proxy |-> None]

is_fake(t) == t.typ = "FakeTensor"

-----------------------------------------------------------------------------
(* Operators *)

\* func.overloadpacket.__name__, as its characters
PacketName(func) ==
    CASE func = "add.Tensor" ->
             <<"a", "d", "d">>
      [] func = "add_.Tensor" ->
             <<"a", "d", "d", "_">>
      [] func = "mul.Tensor" ->
             <<"m", "u", "l">>
      [] func = "sigmoid.default" ->
             <<"s", "i", "g", "m", "o", "i", "d">>
      [] func = "silu.default" ->
             <<"s", "i", "l", "u">>
      [] func = "clone.default" ->
             <<"c", "l", "o", "n", "e">>
      [] func = "expand.default" ->
             <<"e", "x", "p", "a", "n", "d">>
      [] func = "item.default" ->
             <<"i", "t", "e", "m">>
      [] func = "_local_scalar_dense.default" ->
             <<"_", "l", "o", "c", "a", "l", "_", "s", "c", "a", "l", "a", "r", "_", "d", "e", "n", "s", "e">>
      [] func = "equal.default" ->
             <<"e", "q", "u", "a", "l">>
      [] func = "rand_like.default" ->
             <<"r", "a", "n", "d", "_", "l", "i", "k", "e">>
      [] func = "first_size.default" ->
             <<"f", "i", "r", "s", "t", "_", "s", "i", "z", "e">>
      [] func = "lift_fresh.default" ->
             <<"l", "i", "f", "t", "_", "f", "r", "e", "s", "h">>
      [] func = "lift_fresh_copy.default" ->
             <<"l", "i", "f", "t", "_", "f", "r", "e", "s", "h", "_", "c", "o", "p", "y">>

\* func.tags
Tags(func) ==
    IF func \in {"item.default", "_local_scalar_dense.default", "equal.default"}
    THEN {"data_dependent_output"}
    ELSE IF func = "rand_like.default" THEN {"nondeterministic_seeded"}
    ELSE {}

\* operators with a CompositeImplicitAutograd kernel: func.decompose() runs
\* it, for the others func.decompose() returns NotImplemented
CompositeImplicit == {"item.default"}

BinaryFuncs == {"add.Tensor", "add_.Tensor", "mul.Tensor"}

\* an argument of a kernel call: a tensor of the heap, a captured constant
\* (a tensor held by value), or plain data
arg_numel(a, hp) ==
    IF isinstance(a, "T") THEN hp[a.id].numel ELSE IF isinstance(a, "C") THEN a.numel ELSE 1
arg_data(a, hp) ==
    IF isinstance(a, "T") THEN hp[a.id].data ELSE IF isinstance(a, "C") THEN a.data ELSE a.id % 2
arg_fake(a, hp) == isinstance(a, "T") /\ is_fake(hp[a.id])
arg_meta(a, hp) == IF isinstance(a, "T") THEN hp[a.id].meta ELSE StaticMeta
arg_is_tensor(a) == isinstance(a, "T") \/ isinstance(a, "C")

add_data(x, y) == IF x = NoData \/ y = NoData THEN NoData ELSE (x + y) % 2

\* The kernel executor: func(args, kwargs).  first_size is an operator of a
\* library outside aten that returns the first size of its argument; for a
\* tensor with a symbolic size that is the size's own symbolic scalar.  fake_mode tells whether a
\* FakeTensorMode is active (results are then simulated tensors); by_value
\* tells that the call computes a captured constant, whose result is a
\* tensor no runtime value refers to.  fresh is an unused SymNode.
Kernel(func, args, hp, fake_mode, symbolic, by_value, fresh) ==
    LET a == args[1]
        b == IF Len(args) > 1 THEN args[2] ELSE L(0)
        fake == fake_mode \/ \E i \in 1..Len(args) : arg_fake(args[i], hp)
        typ == IF fake THEN "FakeTensor" ELSE "Tensor"
        big == IF arg_is_tensor(b) /\ arg_numel(b, hp) > arg_numel(a, hp) THEN b ELSE a
        new(t) == IF by_value
                  THEN [heap |-> hp, ret |-> Returned(Const(t.numel, t.data))]
                  ELSE [heap |-> Append(hp, t), ret |-> Returned(T(Len(hp) + 1))]
        sum == IF fake THEN NoData ELSE add_data(arg_data(a, hp), arg_data(b, hp))
    IN CASE func \in {"add.Tensor", "mul.Tensor"} ->
              new(Tensor(typ, arg_numel(big, hp), sum, arg_meta(big, hp)))
         [] func = "add_.Tensor" ->
              IF isinstance(a, "T")
              THEN [heap |-> [hp EXCEPT ![a.id].data =
                                 IF is_fake(hp[a.id]) THEN NoData
                                 ELSE add_data(@, arg_data(b, hp))],
                    ret |-> Returned(a)]
              ELSE [heap |-> hp,
                    ret |-> Returned(Const(a.numel, add_data(a.data, arg_data(b, hp))))]
         [] func = "lift_fresh.default" ->
              [heap |-> hp, ret |-> Returned(a)]
         [] func \in {"clone.default", "sigmoid.default", "silu.default",
                      "lift_fresh_copy.default"} ->
              new(Tensor(typ, arg_numel(a, hp),
                         IF fake THEN NoData ELSE arg_data(a, hp), arg_meta(a, hp)))
         [] func = "expand.default" ->
              new(Tensor(typ, 2, IF fake THEN NoData ELSE arg_data(a, hp),
                         IF isinstance(b, "S")
                         THEN Meta(<<b.id>>, <<0>>, b.id, 0, arg_meta(a, hp).sparse)
                         ELSE [arg_meta(a, hp) EXCEPT !.size = <<0>>, !.numel = 0]))
         [] func = "rand_like.default" ->
              new(Tensor(typ, arg_numel(a, hp), IF fake THEN NoData ELSE 0, arg_meta(a, hp)))
         [] func = "first_size.default" ->
              [heap |-> hp,
               ret |-> Returned(IF arg_meta(a, hp).size[1] # 0
                                THEN S(arg_meta(a, hp).size[1], 1)
                                ELSE L(arg_numel(a, hp)))]
         [] func = "equal.default" ->
              IF fake THEN [heap |-> hp, ret |-> Raised("DataDependentOutputException")]
              ELSE [heap |-> hp,
                    ret |-> Returned(B(/\ arg_numel(a, hp) = arg_numel(b, hp)
                                       /\ arg_data(a, hp) = arg_data(b, hp)))]
         [] func \in {"item.default", "_local_scalar_dense.default"} ->
              IF ~ arg_fake(a, hp)
              THEN IF arg_numel(a, hp) = 1
                   THEN [heap |-> hp, ret |-> Returned(L(arg_data(a, hp)))]
                   ELSE [heap |-> hp, ret |-> Raised("RuntimeError: cannot be converted to Scalar")]
              ELSE IF symbolic THEN [heap |-> hp, ret |-> Returned(S(fresh, 1))]
              ELSE [heap |-> hp, ret |-> Raised("DataDependentOutputException")]

-----------------------------------------------------------------------------
(* Tracking of values *)

\* a SymNode that is a literal constant (node.constant is not None)
sym_constant(n) == IF n = 3 THEN L(2) ELSE None

fetch_sym_proxy_uncached(tr, e, hp) ==
    IF sym_constant(e.id) # None THEN [tr |-> tr, ret |-> Returned(sym_constant(e.id))]
    ELSE IF ~ in_tracker(tr, e) THEN [tr |-> tr, ret |-> Raised("RuntimeError")]
    ELSE LET c == call_closure(tr, tr.thunks[slot_of(tr, e).id].f, hp)
         IN [tr |-> c.tr, ret |-> Returned(c.v)]

\* every symbolic scalar is looked up in the tracer, a literal one too
fetch_sym_proxy_no_literals(tr, e, hp) ==
    get_proxy_slot(tr, e, no_default, "lambda e: e.force()", hp)

\* fetch_sym_proxy(tracer)(e)
fetch_sym_proxy(tr, e, hp) ==
    IF sym_constant(e.id) # None THEN [tr |-> tr, ret |-> Returned(sym_constant(e.id))]
    ELSE get_proxy_slot(tr, e, no_default, "lambda e: e.force()", hp)

\* fetch_object_proxy(tracer, t)
fetch_object_proxy(tr, t, hp) == get_proxy_slot(tr, t, t, "lambda x: x", hp).ret.val

\* the symbolic scalars track_tensor looks at, in its order: each size, each
\* stride, the element count, the storage offset, with the shape query that
\* yields it
RECURSIVE indexed(_, _, _)
indexed(seq, fn, i) ==
    IF i > Len(seq) THEN <<>>
    ELSE <<[s |-> seq[i], fn |-> fn, args |-> <<L(i - 1)>>]>> \o indexed(seq, fn, i + 1)

shape_queries(meta) ==
    indexed(meta.size, "sym_size.int", 1)
    \o (IF ~ meta.sparse THEN indexed(meta.stride, "sym_stride.int", 1) ELSE <<>>)
    \o <<[s |-> meta.numel, fn |-> "sym_numel.default", args |-> <<>>]>>
    \o (IF ~ meta.sparse
        THEN <<[s |-> meta.storage_offset, fn |-> "sym_storage_offset.default", args |-> <<>>]>>
        ELSE <<>>)

\* try_set_proxy_slot(outer_s, proxy_callable, *args), for each query in turn
RECURSIVE try_set_proxy_slots(_, _, _, _)
try_set_proxy_slots(tr, qs, proxy, i) ==
    IF i > Len(qs) THEN tr
    ELSE IF qs[i].s = 0 THEN try_set_proxy_slots(tr, qs, proxy, i + 1)
    ELSE LET x == S(qs[i].s, 1)
             th == thunkify(tr, Closure(qs[i].fn, proxy, qs[i].args, x))
         IN try_set_proxy_slots(collect(set_proxy_slot(th.tr, x, th.v)), qs, proxy, i + 1)

track_tensor_first_wins(tr, tensor, proxy, constant, hp) ==
    set_proxy_slot_no_clobber(
        try_set_proxy_slots(tr, shape_queries(hp[tensor.id].meta), proxy, 1),
        tensor, _ProxyTensor(proxy, constant))

\* the thunks of the tensor's symbolic scalars, forced one after the other
RECURSIVE force_slots(_, _, _, _)
force_slots(tr, qs, hp, i) ==
    IF i > Len(qs) THEN tr
    ELSE IF qs[i].s = 0 THEN force_slots(tr, qs, hp, i + 1)
    ELSE force_slots(force(tr, tr.symnode_tracker[key_of(tr, S(qs[i].s, 1))], hp).tr,
                     qs, hp, i + 1)

\* the shape queries are made when the tensor is tracked
track_tensor_eager(tr, tensor, proxy, constant, hp) ==
    set_proxy_slot(
        force_slots(try_set_proxy_slots(tr, shape_queries(hp[tensor.id].meta), proxy, 1),
                    shape_queries(hp[tensor.id].meta), hp, 1),
        tensor, _ProxyTensor(proxy, constant))

track_tensor(tr, tensor, proxy, constant, hp) ==
    set_proxy_slot(
        try_set_proxy_slots(tr, shape_queries(hp[tensor.id].meta), proxy, 1),
        tensor, _ProxyTensor(proxy, constant))

\* track_tensor_tree(inner_res, proxy_res, constant=constant, tracer=tracer):
\* wrap_with_proxy on a tensor, a SymInt, a script object or plain data
track_tensor_tree(tr, e, proxy, constant, hp) ==
    IF isinstance(e, "T")
    THEN set_meta(track_tensor(tr, e, proxy, constant, hp), proxy, e, hp)
    ELSE IF isinstance(e, "S")
    THEN LET th == thunkify(set_meta(tr, proxy, e, hp),
                            Closure("lambda: proxy", proxy, <<>>, None))
         IN collect(set_proxy_slot(th.tr, e, th.v))
    ELSE IF isinstance(e, "O")
    THEN set_meta(set_proxy_slot(tr, e, proxy), proxy, e, hp)
    ELSE tr

\* func(args) for an operator on symbolic scalars: a new symbolic scalar,
\* or a plain number when the result is known (a product with 0)
sym_call(func, args, fresh) ==
    IF func = "mul" /\ (args[1] = L(0) \/ args[2] = L(0)) THEN L(0) ELSE S(fresh, 1)

\* ProxySymDispatchMode.__sym_dispatch__(func, types, args, kwargs), with
\* the sub-layer's enable_tracing flag
__sym_dispatch__(tr, enable_tracing, func, args, fresh, hp) ==
    IF ~ enable_tracing
    THEN [tr |-> tr, ret |-> Returned(sym_call(func, args, fresh))]
    ELSE IF func = "mul" /\ args[2] = L(1)
    THEN [tr |-> tr, ret |-> Returned(args[1])]
    ELSE IF func = "mul" /\ args[1] = L(1)
    THEN [tr |-> tr, ret |-> Returned(args[2])]
    ELSE IF isinstance(sym_call(func, args, fresh), "S")
    THEN [tr |-> collect(set_proxy_slot(
                    thunkify(tr, ComputeProxy(func, args, sym_call(func, args, fresh))).tr,
                    sym_call(func, args, fresh),
                    Thunk(Len(tr.thunks) + 1))),
          ret |-> Returned(sym_call(func, args, fresh))]
    ELSE [tr |-> tr, ret |-> Returned(sym_call(func, args, fresh))]

-----------------------------------------------------------------------------
(* The interception layers: the mode stack, the symbolic sub-layer's flag,
   the active decomposition table, and the scopes that are open *)

\* the ProxyTorchDispatchMode instances: the session's and a second one
Layers == {1, 2}
Mode(l) == [k |-> "ProxyTorchDispatchMode", id |-> l]

\* None given where a decomposition table is expected
NoTable == {"None"}

\* the decomposition tables a scope may install
DecompTables == {NoTable, {}, {"silu.default"}, {"add.Tensor"}}

\* before any mode is entered: the PROXY slot of the dispatch mode stack is
\* empty; each instance has enter_stack = [], _managers = [] and a sym_mode
\* with enable_tracing = True (ProxyTorchDispatchMode.__init__)
NoModes ==
    [proxy |-> None,
     enter_stack |-> [l \in Layers |-> <<>>],
     _managers |-> [l \in Layers |-> <<>>],
     sym_enable_tracing |-> [l \in Layers |-> TRUE],
     scopes |-> <<>>]

\* the interception state with the active decomposition table
Ctx(md, table) == [md |-> md, table |-> table]

\* _unset_infra_mode(PROXY): empties the slot and returns what was in it
_unset_infra_mode(md) == [md |-> [md EXCEPT !.proxy = None], v |-> md.proxy]

\* _push_mode(mode), for a mode whose key is PROXY
_push_mode(md, m) == [md EXCEPT !.proxy = m]

\* TorchDispatchMode.__exit__: pops the mode that is on the stack
_pop_mode(md) == [md EXCEPT !.proxy = None]

\* ProxySymDispatchMode.enable(b), up to its yield; old stays in its frame
enable(md, l, b) ==
    [md |-> [md EXCEPT !.sym_enable_tracing[l] = b], old |-> md.sym_enable_tracing[l]]

\* the same with the restoration outside of a finally clause
enable_exit_no_finally(md, l, old, exc) ==
    IF exc THEN md ELSE [md EXCEPT !.sym_enable_tracing[l] = old]

\* ProxySymDispatchMode.enable(b), after its yield: the finally clause
enable_exit(md, l, old, exc) == [md EXCEPT !.sym_enable_tracing[l] = old]

\* decompose(decomposition_table), up to its yield
decompose(table, decomposition_table) ==
    [table |-> IF decomposition_table = NoTable THEN {} ELSE decomposition_table,
     old_decomposition_table |-> table]

\* the table is emptied instead of put back
decompose_exit_empties(old_decomposition_table, exc) == {}

\* decompose(decomposition_table), after its yield: the finally clause
decompose_exit(old_decomposition_table, exc) == old_decomposition_table

\* __enter__: m = self.sym_mode.enable(True); self._managers.append(m);
\* m.__enter__()
__enter__sym(md, l) ==
    [enable(md, l, TRUE).md EXCEPT !._managers[l] = Append(@, enable(md, l, TRUE).old)]

\* __enter__: the previous layer is taken out of the PROXY slot and kept on
\* enter_stack
__enter__unset(md, l) ==
    [_unset_infra_mode(md).md EXCEPT !.enter_stack[l] = Append(@, _unset_infra_mode(md).v)]

\* the states ProxyTorchDispatchMode.__enter__ of instance l goes through:
\* after the symbolic scope is entered, after the previous layer is
\* displaced, after super().__enter__() has pushed self
__enter__steps(md, l) ==
    <<__enter__sym(md, l),
      __enter__unset(__enter__sym(md, l), l),
      _push_mode(__enter__unset(__enter__sym(md, l), l), Mode(l))>>

\* ProxyTorchDispatchMode.__enter__ of instance l
__enter__(md, l) == __enter__steps(md, l)[3]

\* the previous layer is forgotten instead of pushed back
__exit__forgets_previous(md, l, exc) ==
    LET m == md._managers[l][Len(md._managers[l])]
        popped == _pop_mode([md EXCEPT !._managers[l] = SubSeq(@, 1, Len(@) - 1)])
    IN enable_exit([popped EXCEPT !.enter_stack[l] = SubSeq(@, 1, Len(@) - 1)], l, m, exc)

\* __exit__: m = self._managers.pop(); b = super().__exit__(...), which
\* pops self
__exit__super(md, l) == _pop_mode([md EXCEPT !._managers[l] = SubSeq(@, 1, Len(@) - 1)])

\* __exit__: mb_previous_proxy_mode = self.enter_stack.pop(), pushed back
\* if there was one
__exit__previous(md, l) ==
    IF md.enter_stack[l][Len(md.enter_stack[l])] # None
    THEN _push_mode([md EXCEPT !.enter_stack[l] = SubSeq(@, 1, Len(@) - 1)],
                    md.enter_stack[l][Len(md.enter_stack[l])])
    ELSE [md EXCEPT !.enter_stack[l] = SubSeq(@, 1, Len(@) - 1)]

\* the symbolic scope is left before self is popped
__exit__steps_sym_first(md, l, exc) ==
    <<enable_exit(md, l, md._managers[l][Len(md._managers[l])], exc),
      __exit__super(enable_exit(md, l, md._managers[l][Len(md._managers[l])], exc), l),
      __exit__previous(
         __exit__super(enable_exit(md, l, md._managers[l][Len(md._managers[l])], exc), l), l)>>

\* the states ProxyTorchDispatchMode.__exit__ of instance l goes through:
\* after self is popped, after the previous layer is pushed back, after
\* m.__exit__(...) has left the symbolic scope
__exit__steps(md, l, exc) ==
    <<__exit__super(md, l),
      __exit__previous(__exit__super(md, l), l),
      enable_exit(__exit__previous(__exit__super(md, l), l), l,
                  md._managers[l][Len(md._managers[l])], exc)>>

\* ProxyTorchDispatchMode.__exit__ of instance l
__exit__(md, l, exc) == __exit__steps(md, l, exc)[3]

\* what a scope has to put back when it is left
Before(cx) ==
    [proxy |-> cx.md.proxy, sym_enable_tracing |-> cx.md.sym_enable_tracing,
     table |-> cx.table]

\* a with statement is entered: kind "mode" is `with proxy_mode`, "enable"
\* is `with sym_mode.enable(b)`, "decompose" is `with decompose(table)`,
\* "context" is any other context manager, which changes nothing here;
\* the scope keeps the locals of the context manager's frame
Scope(kind, l, arg) == [kind |-> kind, l |-> l, arg |-> arg]

open(cx, sc, old, md) ==
    [md EXCEPT !.scopes = Append(@, [kind |-> sc.kind, l |-> sc.l, old |-> old,
                                     before |-> Before(cx)])]

enter_context(cx, sc) ==
    IF sc.kind = "mode"
    THEN Ctx(open(cx, sc, None, __enter__(cx.md, sc.l)), cx.table)
    ELSE IF sc.kind = "enable"
    THEN LET m == enable(cx.md, sc.l, sc.arg)
         IN Ctx(open(cx, sc, B(m.old), m.md), cx.table)
    ELSE IF sc.kind = "context"
    THEN Ctx(open(cx, sc, sc.arg, cx.md), cx.table)
    ELSE LET d == decompose(cx.table, sc.arg)
         IN Ctx(open(cx, sc, [k |-> "table", name |-> d.old_decomposition_table], cx.md),
                d.table)

\* the innermost with statement is left, by its end or by an exception
exit_context(cx, exc) ==
    LET sc == cx.md.scopes[Len(cx.md.scopes)]
        md == [cx.md EXCEPT !.scopes = SubSeq(@, 1, Len(@) - 1)]
    IN IF sc.kind = "mode" THEN Ctx(__exit__(md, sc.l, exc), cx.table)
       ELSE IF sc.kind = "enable" THEN Ctx(enable_exit(md, sc.l, sc.old.b, exc), cx.table)
       ELSE IF sc.kind = "context" THEN Ctx(md, cx.table)
       ELSE Ctx(md, decompose_exit(sc.old.name, exc))

\* ExitStack.__exit__: the contexts entered are left, the last one first;
\* n scopes were open when the ExitStack was made
RECURSIVE ExitStack__exit__(_, _, _)
ExitStack__exit__(cx, n, exc) ==
    IF Len(cx.md.scopes) <= n THEN cx
    ELSE ExitStack__exit__(exit_context(cx, exc), n, exc)

\* the states ExitStack.__exit__ goes through, one for each context left
RECURSIVE ExitStack__exit__steps(_, _, _)
ExitStack__exit__steps(cx, n, exc) ==
    IF Len(cx.md.scopes) <= n THEN <<>>
    ELSE <<exit_context(cx, exc)>> \o ExitStack__exit__steps(exit_context(cx, exc), n, exc)

\* stack.enter_context(c) for each c of a list, in its order
RECURSIVE enter_contexts(_, _, _)
enter_contexts(cx, scs, i) ==
    IF i > Len(scs) THEN cx ELSE enter_contexts(enter_context(cx, scs[i]), scs, i + 1)

-----------------------------------------------------------------------------
(* The operation recording algorithm *)

HANDLED_TYPES == {"Tensor", "Parameter", "FakeTensor"}

DataDependentError == "RuntimeError: trying to get value out of a tracing tensor"

\* the state an intercepted call works on: the tracer, the runtime tensors,
\* the recording layer, the active decomposition table and the mode stack
Machine(tr, hp, pm, table, md) ==
    [tr |-> tr, heap |-> hp, pm |-> pm, table |-> table, md |-> md]
Result(ms, r) ==
    [tr |-> ms.tr, heap |-> ms.heap, pm |-> ms.pm, table |-> ms.table, md |-> ms.md,
     ret |-> r]
State(res) == Machine(res.tr, res.heap, res.pm, res.table, res.md)

TensorArgs(args) == {i \in 1..Len(args) : isinstance(args[i], "T")}

can_handle_any_tensor(ms, x) == TRUE

can_handle_tensor(ms, x) ==
    \/ ms.heap[x.id].typ \in HANDLED_TYPES
    \/ has_proxy_slot(ms.tr, x, ms.heap)
    \/ (ms.pm._allow_fake_constant /\ ms.heap[x.id].typ = "FakeTensor")

\* an unused SymNode, for an unbacked symbolic scalar
fresh_symnode(tr) == 11 + Cardinality({n \in DOMAIN tr.symnode_tracker : n > 10})

fake_mode_active(pm) == pm.tracing_mode # "real"

\* the constant of a tracked argument, the argument itself otherwise
const_of(t) == IF isinstance(t, "_ProxyTensor") THEN t.constant ELSE t

\* the element count of a captured constant
constant_numel(c, hp) == IF isinstance(c, "T") THEN hp[c.id].numel ELSE c.numel

\* the arguments with each tensor and script object replaced by its slot
f_flat_args_kwargs(ms, args) ==
    [i \in 1..Len(args) |->
        IF isinstance(args[i], "T") \/ isinstance(args[i], "O")
        THEN fetch_object_proxy(ms.tr, args[i], ms.heap)
        ELSE args[i]]

\* a symbolic scalar that is a literal constant is let through
all_constant_literal_syms(ms, args) ==
    LET f == f_flat_args_kwargs(ms, args) IN
    /\ ~ \E i \in 1..Len(args) : isinstance(f[i], "_ProxyTensor") /\ f[i].constant = None
    /\ ~ \E i \in 1..Len(args) : isinstance(args[i], "S") /\ sym_constant(args[i].id) = None

all_constant(ms, args) ==
    LET f == f_flat_args_kwargs(ms, args) IN
    /\ ~ \E i \in 1..Len(args) : isinstance(f[i], "_ProxyTensor") /\ f[i].constant = None
    /\ ~ \E i \in 1..Len(args) : isinstance(args[i], "S")

\* no argument needs to carry a constant
any_constant_not_needed(ms, args) == TRUE

any_constant(ms, args) ==
    LET f == f_flat_args_kwargs(ms, args) IN
    \E i \in 1..Len(args) : isinstance(f[i], "_ProxyTensor") /\ f[i].constant # None

const_flat_args_kwargs_real(ms, args) == args

const_flat_args_kwargs(ms, args) ==
    LET f == f_flat_args_kwargs(ms, args) IN [i \in 1..Len(args) |-> const_of(f[i])]

\* proxy_flat_args_kwargs: each slot replaced by its proxy, then each SymInt
\* by fetch_sym_proxy, in argument order; a failed lookup raises
RECURSIVE proxy_flat_args_kwargs(_, _, _, _)
proxy_flat_args_kwargs(tr, f, hp, done) ==
    IF Len(done) = Len(f) THEN [tr |-> tr, ret |-> Returned(None), args |-> done]
    ELSE LET e == f[Len(done) + 1] IN
         IF isinstance(e, "_ProxyTensor")
         THEN proxy_flat_args_kwargs(tr, f, hp, Append(done, e.proxy))
         ELSE IF isinstance(e, "S")
         THEN LET r == fetch_sym_proxy(tr, e, hp) IN
              IF r.ret.tag = "raise" THEN [tr |-> r.tr, ret |-> r.ret, args |-> done]
              ELSE proxy_flat_args_kwargs(r.tr, f, hp, Append(done, r.ret.val))
         ELSE proxy_flat_args_kwargs(tr, f, hp, Append(done, e))

\* is the operator in-place, by its name
is_inplace_name(name) == name[Len(name)] = "_" /\ name[1] # "_"

no_numel_limit(t, hp) == TRUE

tensor_numel_in_limit(t, hp) == hp[t.id].numel <= CONSTANT_NUMEL_LIMIT

all_tensors_fake(ms, args) == \A i \in TensorArgs(args) : is_fake(ms.heap[args[i].id])

\* are all tensor arguments real tensors (the strict check's condition)
all_tensors_real(ms, args) == \A i \in TensorArgs(args) : ~ is_fake(ms.heap[args[i].id])

\* the captured constant of a recorded call (lines 723-761), computed after
\* the real call: hp is the heap the real call left
propagate_constant(ms, func, args, out, hp) ==
    LET noconst == [heap |-> hp, ret |-> Returned(None)] IN
    IF func = "lift_fresh_copy.default" /\ hp[out.id].numel <= CONSTANT_NUMEL_LIMIT
    THEN [heap |-> hp, ret |-> Returned(Const(arg_numel(args[1], hp), arg_data(args[1], hp)))]
    ELSE IF /\ "nondeterministic_seeded" \notin Tags(func)
            /\ all_constant(ms, args)
            /\ any_constant(ms, args)
            /\ (isinstance(out, "T") => tensor_numel_in_limit(out, hp))
    THEN Kernel(func, const_flat_args_kwargs(ms, args), hp, FALSE,
                ms.pm.tracing_mode = "symbolic", TRUE, fresh_symnode(ms.tr))
    ELSE noconst

record_untracked(ms, po, out, c) ==
    Result(Machine(po.tr, c.heap, ms.pm, ms.table, ms.md), out.ret)

\* proxy_call, the end: the result is associated with the node
record_track(ms, po, out, c) ==
    Result(Machine(track_tensor_tree(po.tr, out.ret.val, po.v, c.ret.val, c.heap),
                   c.heap, ms.pm, ms.table, ms.md),
           out.ret)

\* proxy_call after the real call: the captured constant is computed
record_constant(ms, func, args, po, out) ==
    IF out.ret.tag = "raise"
    THEN Result(Machine(po.tr, out.heap, ms.pm, ms.table, ms.md), out.ret)
    ELSE record_track(ms, po, out, propagate_constant(ms, func, args, out.ret.val, out.heap))

\* proxy_call after the node was made: an in-place operator's first
\* argument gets the new proxy as its attribute, then the operator runs
record_call(ms, func, args, po) ==
    record_constant(ms, func, args, po,
        Kernel(func, args,
               IF is_inplace_name(PacketName(func))
               THEN [ms.heap EXCEPT ![args[1].id].proxy = po.v]
               ELSE ms.heap,
               fake_mode_active(ms.pm), ms.pm.tracing_mode = "symbolic", FALSE,
               fresh_symnode(ms.tr)))

\* proxy_call after the arguments were mapped to proxies: lift_fresh is
\* recorded as lift_fresh_copy, and the node is made
record_node(ms, func, args, pa) ==
    IF pa.ret.tag = "raise"
    THEN Result(Machine(pa.tr, ms.heap, ms.pm, ms.table, ms.md), pa.ret)
    ELSE record_call(ms, func, args, create_proxy(pa.tr, "call_function", func, pa.args))

\* lift_fresh is recorded under its own name
record_lift_fresh(ms, func, args) ==
    IF "data_dependent_output" \in Tags(func) /\ all_constant(ms, args)
    THEN Result(ms, Kernel(func, const_flat_args_kwargs(ms, args), ms.heap, FALSE,
                           ms.pm.tracing_mode = "symbolic", TRUE,
                           fresh_symnode(ms.tr)).ret)
    ELSE IF /\ "data_dependent_output" \in Tags(func)
            /\ ms.pm._error_on_data_dependent_ops
            /\ all_tensors_real(ms, args)
    THEN Result(ms, Raised(DataDependentError))
    ELSE record_node(ms, func, args,
                     proxy_flat_args_kwargs(ms.tr, f_flat_args_kwargs(ms, args), ms.heap, <<>>))

\* proxy_call from the argument mapping on
record(ms, func, args) ==
    IF "data_dependent_output" \in Tags(func) /\ all_constant(ms, args)
    THEN Result(ms, Kernel(func, const_flat_args_kwargs(ms, args), ms.heap, FALSE,
                           ms.pm.tracing_mode = "symbolic", TRUE,
                           fresh_symnode(ms.tr)).ret)
    ELSE IF /\ "data_dependent_output" \in Tags(func)
            /\ ms.pm._error_on_data_dependent_ops
            /\ all_tensors_real(ms, args)
    THEN Result(ms, Raised(DataDependentError))
    ELSE record_node(ms,
                     IF func = "lift_fresh.default" THEN "lift_fresh_copy.default" ELSE func,
                     args,
                     proxy_flat_args_kwargs(ms.tr, f_flat_args_kwargs(ms, args), ms.heap, <<>>))

RECURSIVE proxy_call(_, _, _)
RECURSIVE maybe_handle_decomp(_, _, _)
RECURSIVE func_decompose(_, _, _)
RECURSIVE __torch_dispatch__(_, _, _)

\* an operator called by code that runs inside an intercepted call: the
\* dispatcher gives it to the layer that is in the PROXY slot; with no layer
\* there, the operator just runs
dispatch(ms, func, args) ==
    IF ms.md.proxy = Mode(ms.pm.id) THEN __torch_dispatch__(ms, func, args)
    ELSE Result(Machine(ms.tr,
                        Kernel(func, args, ms.heap, fake_mode_active(ms.pm),
                               ms.pm.tracing_mode = "symbolic", FALSE,
                               fresh_symnode(ms.tr)).heap,
                        ms.pm, ms.table, ms.md),
                Kernel(func, args, ms.heap, fake_mode_active(ms.pm),
                       ms.pm.tracing_mode = "symbolic", FALSE, fresh_symnode(ms.tr)).ret)

\* with proxy_mode: entered, and left by its end or by an exception
with_proxy_mode(ms) == Machine(ms.tr, ms.heap, ms.pm, ms.table, __enter__(ms.md, ms.pm.id))

with_proxy_mode_exit(res) ==
    [res EXCEPT !.md = __exit__(res.md, res.pm.id, res.ret.tag = "raise")]

\* the second operator of the expansion, after the first returned r1
decomposition_mul(r1, args) ==
    IF r1.ret.tag = "raise" THEN r1
    ELSE dispatch(State(r1), "mul.Tensor", <<args[1], r1.ret.val>>)

\* the first operator of the registered expansion of an operator:
\* silu(x) = x * sigmoid(x), and for clone an expansion that reads a value,
\* clone(x) = x * x.item()
decomposition_first(func) ==
    IF func = "clone.default" THEN "item.default" ELSE "sigmoid.default"

\* the registered expansion of an operator
decomposition(ms, func, args) ==
    decomposition_mul(dispatch(ms, decomposition_first(func), <<args[1]>>), args)

with_decomp_layers(ms, n) ==
    Machine(ms.tr, ms.heap, [ms.pm EXCEPT !.decomp_layers = @ + n], ms.table, ms.md)

\* decomp_layers -= 1, which an exception skips
decomp_layers_exit(out) ==
    IF out.ret.tag = "raise" THEN out
    ELSE Result(with_decomp_layers(State(out), -1), out.ret)

\* the expansion runs without the layer being entered
maybe_handle_decomp_not_entered(ms, func, args) ==
    IF func \in ms.table
    THEN decomp_layers_exit(decomposition(with_decomp_layers(ms, 1), func, args))
    ELSE Result(ms, Returned(NotImplemented))

maybe_handle_decomp(ms, func, args) ==
    IF func \in ms.table
    THEN with_proxy_mode_exit(
            decomp_layers_exit(
               decomposition(with_decomp_layers(with_proxy_mode(ms), 1), func, args)))
    ELSE Result(ms, Returned(NotImplemented))

\* with proxy_mode: func.decompose(args, kwargs); item() calls
\* _local_scalar_dense
func_decompose(ms, func, args) ==
    IF func \in CompositeImplicit
    THEN with_proxy_mode_exit(dispatch(with_proxy_mode(ms), "_local_scalar_dense.default", args))
    ELSE Result(ms, Returned(NotImplemented))

proxy_call(ms, func, args) ==
    IF \E i \in TensorArgs(args) : ~ can_handle_tensor(ms, args[i])
    THEN Result(ms, Returned(NotImplemented))
    ELSE LET r == maybe_handle_decomp(ms, func, args) IN
         IF r.ret # Returned(NotImplemented) THEN r
         ELSE LET d == IF ~ ms.pm.pre_dispatch
                       THEN func_decompose(ms, func, args)
                       ELSE Result(ms, Returned(NotImplemented))
              IN IF d.ret # Returned(NotImplemented) THEN d
                 ELSE record(ms, func, args)

\* the flag is not looked at
inner_torch_dispatch_always_records(ms, func, args) == proxy_call(ms, func, args)

\* ProxyTorchDispatchMode.inner_torch_dispatch
inner_torch_dispatch(ms, func, args) ==
    IF ~ ms.pm.enable_tracing
    THEN LET k == Kernel(func, args, ms.heap, fake_mode_active(ms.pm),
                         ms.pm.tracing_mode = "symbolic", FALSE, fresh_symnode(ms.tr))
         IN Result(Machine(ms.tr, k.heap, ms.pm, ms.table, ms.md), k.ret)
    ELSE proxy_call(ms, func, args)

\* the symbolic sub-layer keeps tracing while the layer handles a call
__torch_dispatch__enter_tracing(ms) ==
    Machine(ms.tr, ms.heap, ms.pm, ms.table, _pop_mode(ms.md))

\* __torch_dispatch__ up to the call of inner_torch_dispatch: the dispatcher
\* has taken the layer off the stack, and sym_mode.enable(False) is entered
__torch_dispatch__enter(ms) ==
    Machine(ms.tr, ms.heap, ms.pm, ms.table,
            enable(_pop_mode(ms.md), ms.pm.id, FALSE).md)

\* __torch_dispatch__ when inner_torch_dispatch has returned or raised r:
\* sym_mode.enable(False) is left and the dispatcher puts the layer back
__torch_dispatch__exit(ms, r) ==
    [r EXCEPT !.md = enable_exit(_push_mode(r.md, Mode(ms.pm.id)), ms.pm.id,
                                 ms.md.sym_enable_tracing[ms.pm.id],
                                 r.ret.tag = "raise")]

\* ProxyTorchDispatchMode.__torch_dispatch__(func, types, args, kwargs): the
\* dispatcher has taken the layer off the stack for the time of the call,
\* and inner_torch_dispatch runs under sym_mode.enable(False)
__torch_dispatch__(ms, func, args) ==
    __torch_dispatch__exit(ms,
        inner_torch_dispatch(__torch_dispatch__enter(ms), func, args))

-----------------------------------------------------------------------------
(* The tracing session *)

\* _MakefxTracer(decomposition_table, tracing_mode, ..., pre_dispatch, ...,
\* _error_on_data_dependent_ops), with the number of leading tensors of the
\* heap that are the traced function's inputs, the operators the traced
\* function calls and the function traced
Config(tracing_mode, strict, pre_dispatch, table, ninputs, funcs, prog) ==
    [tracing_mode |-> tracing_mode, _error_on_data_dependent_ops |-> strict,
     pre_dispatch |-> pre_dispatch, _allow_fake_constant |-> FALSE,
     decomposition_table |-> table, ninputs |-> ninputs, funcs |-> funcs,
     prog |-> prog, tracer |-> "PythonKeyTracer"]

\* ProxyTorchDispatchMode.__init__
ProxyTorchDispatchMode(cfg) ==
    [tracing_mode |-> cfg.tracing_mode, enable_tracing |-> TRUE,
     pre_dispatch |-> cfg.pre_dispatch,
     _allow_fake_constant |-> cfg._allow_fake_constant,
     _error_on_data_dependent_ops |-> cfg._error_on_data_dependent_ops,
     decomp_layers |-> 0, id |-> 1]

-----------------------------------------------------------------------------
(* _MakefxTracer: the per-session fields and what trace gives back *)

nullcontext == [k |-> "nullcontext"]
ShapeEnv == [k |-> "ShapeEnv"]
FakeTensorMode(shape_env) == [k |-> "FakeTensorMode", shape_env |-> shape_env]
\* PythonKeyTracer(): a new tracer, with a graph and three tables of its own
PythonKeyTracer(i) == [k |-> "PythonKeyTracer", id |-> i]
EmptyTracer ==
    [graph |-> <<>>, tensor_tracker |-> EmptyDict,
     symnode_tracker_class |-> "_SymNodeDict", symnode_tracker |-> EmptyDict,
     script_object_tracker |-> EmptyDict, thunks |-> <<>>]
GraphModule(g, shape_env) == [k |-> "GraphModule", graph |-> g, shape_env |-> shape_env]

\* _MakefxTracer.__init__: the fields that hold the modes of a session
SessionFields ==
    [fake_tensor_mode |-> None, proxy_mode |-> nullcontext,
     proxy_function_mode |-> nullcontext, fx_tracer |-> None,
     python_dispatcher_mode |-> nullcontext, torch_fn_metadata_mode |-> nullcontext]

\* a _MakefxTracer on which trace has not been called: prev_modes is the
\* local of _init_modes_from_inputs, result is what trace returned
_MakefxTracer == [self |-> SessionFields, prev_modes |-> None, result |-> None]

_checkpoint_modes(mf) == mf.self

\* fx_tracer is not put back
_restore_modes_keeps_fx_tracer(mf, prev_modes) ==
    [mf EXCEPT !.self = [prev_modes EXCEPT !.fx_tracer = mf.self.fx_tracer]]

_restore_modes(mf, prev_modes) == [mf EXCEPT !.self = prev_modes]

\* _construct_modes_with_fx_tracer(fx_tracer): the ProxyTorchDispatchMode
\* made for tracer i is instance i
_construct_modes_with_fx_tracer(self, cfg) ==
    [self EXCEPT
       !.proxy_mode = Mode(self.fx_tracer.id),
       !.proxy_function_mode =
           IF cfg.pre_dispatch THEN [k |-> "PreDispatchTorchFunctionMode"] ELSE @,
       !.python_dispatcher_mode =
           IF cfg.tracing_mode = "symbolic" \/ cfg.pre_dispatch
           THEN [k |-> "enable_python_dispatcher"] ELSE @,
       !.torch_fn_metadata_mode = [k |-> "TorchFunctionMetadataMode"]]

\* _init_modes_from_inputs(f, args), up to its yield; the inputs are not
\* fake tensors, so detect_fake_mode finds no mode and one is made
_init_modes_from_inputs(mf, cfg) ==
    [self |-> _construct_modes_with_fx_tracer(
                 [mf.self EXCEPT
                    !.fx_tracer = PythonKeyTracer(1),
                    !.fake_tensor_mode =
                        IF cfg.tracing_mode \in {"fake", "symbolic"}
                        THEN FakeTensorMode(ShapeEnv) ELSE @], cfg),
     prev_modes |-> _checkpoint_modes(mf),
     result |-> None]

\* the context manager objects _trace_inner enters besides the fields
ProxySymDispatchMode(l) == [k |-> "ProxySymDispatchMode", id |-> l]
disable_autocast_cache == [k |-> "disable_autocast_cache"]
_set_make_fx_tracer == [k |-> "_set_make_fx_tracer"]

\* the recording layer is entered before its symbolic sub-layer
_trace_inner_contexts_mode_first(mf, cfg) ==
    <<Scope("decompose", 0, cfg.decomposition_table)>>
    \o (IF mf.self.fake_tensor_mode # None
        THEN <<Scope("context", 0, mf.self.fake_tensor_mode)>> ELSE <<>>)
    \o <<Scope("context", 0, mf.self.python_dispatcher_mode),
          Scope("context", 0, mf.self.proxy_function_mode),
          Scope("mode", mf.self.proxy_mode.id, None),
          Scope("context", 0, mf.self.torch_fn_metadata_mode),
          Scope("context", 0, ProxySymDispatchMode(mf.self.proxy_mode.id)),
          Scope("context", 0, disable_autocast_cache),
          Scope("context", 0, _set_make_fx_tracer)>>

\* the contexts the ExitStack of _trace_inner enters, in its order
_trace_inner_contexts(mf, cfg) ==
    <<Scope("decompose", 0, cfg.decomposition_table)>>
    \o (IF mf.self.fake_tensor_mode # None
        THEN <<Scope("context", 0, mf.self.fake_tensor_mode)>> ELSE <<>>)
    \o <<Scope("context", 0, mf.self.python_dispatcher_mode),
          Scope("context", 0, mf.self.proxy_function_mode),
          Scope("context", 0, ProxySymDispatchMode(mf.self.proxy_mode.id)),
          Scope("context", 0, mf.self.torch_fn_metadata_mode),
          Scope("mode", mf.self.proxy_mode.id, None),
          Scope("context", 0, disable_autocast_cache),
          Scope("context", 0, _set_make_fx_tracer)>>

\* _trace_inner up to the call of dispatch_trace: the ExitStack enters its
\* contexts
_trace_inner_enter(cx, mf, cfg) == enter_contexts(cx, _trace_inner_contexts(mf, cfg), 1)

\* the parent's tracer object is used for the sub-session
_create_sub_fx_tracer_shared(parent_tracer) == parent_tracer

\* _create_sub_fx_tracer(parent_tracer) of _init_modes_from_parent
_create_sub_fx_tracer(parent_tracer) == PythonKeyTracer(parent_tracer.id + 1)

\* _init_modes_from_parent(parent_tracer), up to its yield
_init_modes_from_parent(mf, parent_tracer, cfg) ==
    [self |-> _construct_modes_with_fx_tracer(
                 [mf.self EXCEPT
                    !.fake_tensor_mode = parent_tracer.self.fake_tensor_mode,
                    !.fx_tracer = _create_sub_fx_tracer(parent_tracer.self.fx_tracer)],
                 cfg),
     prev_modes |-> _checkpoint_modes(mf),
     result |-> None]

\* trace when dispatch_trace returned: _trace_inner leaves the ExitStack,
\* gives the graph module the shape environment under symbolic tracing and
\* returns it; the finally clause of _init_modes_from_inputs runs
trace_return(mf, cfg, g) ==
    [_restore_modes(mf, mf.prev_modes) EXCEPT
       !.result = GraphModule(g, IF cfg.tracing_mode = "symbolic"
                                 THEN mf.self.fake_tensor_mode.shape_env ELSE None)]

\* the graph made so far is returned although the trace failed
trace_raise_returns_graph(mf, cfg, g) == trace_return(mf, cfg, g)

\* trace when an exception leaves dispatch_trace: it passes through both
\* with statements, whose exits run, and no value is returned
trace_raise(mf, cfg, g) == [_restore_modes(mf, mf.prev_modes) EXCEPT !.result = None]

-----------------------------------------------------------------------------
(* The registry and thunk functions called directly *)

SlotObjects == {T(1), O(1), S(1, 1), S(1, 2)}
SlotConstants == {None, Const(1, 0)}
SlotDefaults == {no_default, None, B(FALSE)}

SlotTransforms(obj) ==
    IF isinstance(obj, "T") THEN {"lambda x: x", "lambda x: x.proxy", "lambda _: True"}
    ELSE IF isinstance(obj, "S") THEN {"lambda x: x", "lambda e: e.force()"}
    ELSE {"lambda x: x"}

SetTracer(tr) ==
    /\ graph' = tr.graph
    /\ tensor_tracker' = tr.tensor_tracker
    /\ symnode_tracker' = tr.symnode_tracker
    /\ script_object_tracker' = tr.script_object_tracker
    /\ thunks' = tr.thunks

SetCtx(cx) ==
    /\ modes' = cx.md
    /\ CURRENT_DECOMPOSITION_TABLE' = cx.table

InitSlots ==
    /\ graph = <<>>
    /\ tensor_tracker = EmptyDict
    /\ symnode_tracker = EmptyDict
    /\ script_object_tracker = EmptyDict
    /\ thunks = <<>>
    /\ heap = <<Tensor("Tensor", 1, 0, StaticMeta)>>
    /\ config = Config("real", TRUE, FALSE, {}, 0, {}, "any")
    /\ proxy_mode = ProxyTorchDispatchMode(config)
    /\ CURRENT_DECOMPOSITION_TABLE = {}
    /\ phase = "new"
    /\ last = NoCall
    /\ ret = Returned(None)
    /\ modes = NoModes
    /\ makefx = None
    /\ module_tracer = None
    /\ function_modes = NoFunctionModes
    /\ torch_fn = NoTorchFn

ApiCreateProxy ==
    /\ Len(graph) < MaxSlotNodes
    /\ LET c == create_proxy(Tracer, "placeholder", "arg", <<>>) IN
       /\ SetTracer(c.tr)
       /\ last' = [op |-> "create_proxy"]
       /\ ret' = Returned(c.v)
    /\ UNCHANGED session

\* set_proxy_slot(obj, tracer, proxy), with a _ProxyTensor for a tensor, a
\* Proxy for a script object and thunkify(lambda: proxy) for a SymInt
ApiSetProxySlot ==
    \E obj \in SlotObjects, p \in 1..Len(graph), c \in SlotConstants :
       /\ isinstance(obj, "T") \/ c = None
       /\ LET th == thunkify(Tracer, Closure("lambda: proxy", P(p), <<>>, None))
              tr == IF isinstance(obj, "T")
                    THEN set_proxy_slot(Tracer, obj, _ProxyTensor(P(p), c))
                    ELSE IF isinstance(obj, "O")
                    THEN set_proxy_slot(Tracer, obj, P(p))
                    ELSE collect(set_proxy_slot(th.tr, obj, th.v))
          IN /\ SetTracer(tr)
             /\ last' = [op |-> "set_proxy_slot", obj |-> obj, proxy |-> P(p),
                         constant |-> c, old |-> slot_of(Tracer, obj)]
             /\ ret' = Returned(None)
       /\ UNCHANGED session

ApiGetProxySlot ==
    \E obj \in SlotObjects, default \in SlotDefaults :
       \E fn \in SlotTransforms(obj) :
          LET res == get_proxy_slot(Tracer, obj, default, fn, heap) IN
          /\ Len(res.tr.graph) <= MaxSlotNodes
          /\ SetTracer(res.tr)
          /\ last' = [op |-> "get_proxy_slot", obj |-> obj, default |-> default,
                      transform |-> fn, old |-> slot_of(Tracer, obj)]
          /\ ret' = res.ret
          /\ UNCHANGED session

ApiHasProxySlot ==
    \E obj \in {o \in SlotObjects : isinstance(o, "T")} :
       /\ last' = [op |-> "has_proxy_slot", obj |-> obj, old |-> slot_of(Tracer, obj)]
       /\ ret' = Returned(B(has_proxy_slot(Tracer, obj, heap)))
       /\ UNCHANGED <<graph, tensor_tracker, symnode_tracker, script_object_tracker,
                      thunks>>
       /\ UNCHANGED session

NextSlots == ApiCreateProxy \/ ApiSetProxySlot \/ ApiGetProxySlot \/ ApiHasProxySlot

SpecSlots == InitSlots /\ [][NextSlots]_vars

-----------------------------------------------------------------------------
(* Claims about the slot registry, checked under SpecSlots *)

Tables == <<tensor_tracker, symnode_tracker, script_object_tracker>>

IsCall(op) == last.op = op

\* the Proxy a Thunk made from "lambda: proxy" yields, forced or not
ThunkValue(ths, th) == IF ths[th.id].f = None THEN ths[th.id].r ELSE ths[th.id].f.proxy

\* C1: tensor and script-object slots are last-write-wins: a bind installs
\* the proxy it was given whatever the slot held, nothing but a bind of that
\* object changes its slot, and a lookup returns what the slot holds, so a
\* lookup always returns the proxy of the most recent bind.
C1_LastWriteWins ==
    [][ /\ (IsCall("set_proxy_slot")' /\ isinstance(last'.obj, "T"))
              => slot_of(Tracer', last'.obj) = _ProxyTensor(last'.proxy, last'.constant)
        /\ (IsCall("set_proxy_slot")' /\ isinstance(last'.obj, "O"))
              => slot_of(Tracer', last'.obj) = last'.proxy
        /\ \A obj \in {T(1), O(1)} :
              slot_of(Tracer', obj) # slot_of(Tracer, obj)
                 => IsCall("set_proxy_slot")' /\ last'.obj = obj
        /\ (/\ IsCall("get_proxy_slot")'
            /\ last'.obj.k \in {"T", "O"}
            /\ in_tracker(Tracer, last'.obj)
            /\ last'.transform = "lambda x: x")
              => ret' = Returned(slot_of(Tracer, last'.obj))
      ]_vars

\* C1 witness: a tensor that was bound to one proxy has been bound to another
C1_Witness ==
    /\ IsCall("set_proxy_slot")
    /\ last.obj = T(1)
    /\ last.old # None
    /\ last.old.proxy # last.proxy
    /\ tensor_tracker[1].proxy = last.proxy

\* C2: symbolic-scalar slots are first-write-wins: a bind of a SymInt whose
\* node already has a slot changes neither the table nor any thunk, a bind
\* of an unbound node installs a thunk for the given proxy, nothing else
\* changes the table, and every lookup returns the installed thunk, whose
\* forced value is the proxy of the first bind.
C2_FirstWriteWins ==
    [][ /\ (IsCall("set_proxy_slot")' /\ isinstance(last'.obj, "S"))
              => IF in_tracker(Tracer, last'.obj)
                 THEN symnode_tracker' = symnode_tracker /\ thunks' = thunks
                 ELSE /\ in_tracker(Tracer', last'.obj)
                      /\ ThunkValue(thunks', slot_of(Tracer', last'.obj)) = last'.proxy
        /\ symnode_tracker' # symnode_tracker
              => /\ IsCall("set_proxy_slot")'
                 /\ isinstance(last'.obj, "S")
                 /\ ~ in_tracker(Tracer, last'.obj)
        /\ \A n \in DOMAIN symnode_tracker :
              ThunkValue(thunks', symnode_tracker'[n]) = ThunkValue(thunks, symnode_tracker[n])
        /\ (/\ IsCall("get_proxy_slot")'
            /\ isinstance(last'.obj, "S")
            /\ in_tracker(Tracer, last'.obj))
              => IF last'.transform = "lambda e: e.force()"
                 THEN ret' = Returned(ThunkValue(thunks, slot_of(Tracer, last'.obj)))
                 ELSE ret' = Returned(slot_of(Tracer, last'.obj))
      ]_vars

\* C2 witness: a second bind, through another wrapper of the same node and
\* with another proxy, has left the first thunk in place
C2_Witness ==
    /\ IsCall("set_proxy_slot")
    /\ last.obj = S(1, 2)
    /\ last.old # None
    /\ ThunkValue(thunks, symnode_tracker[1]) # last.proxy

\* C3: get_proxy_slot returns transform(slot) for a bound object, the
\* default as given (not transformed) for an unbound one, raises when the
\* object is unbound and no default was given, and in no case changes any
\* of the three tables; has_proxy_slot tells whether the object is bound.
C3_Lookup ==
    [][ /\ IsCall("get_proxy_slot")' =>
           /\ Tables' = Tables
           /\ IF ~ in_tracker(Tracer, last'.obj)
              THEN IF last'.default = no_default
                   THEN ret' = Raised("RuntimeError")
                   ELSE ret' = Returned(last'.default)
              ELSE LET slot == slot_of(Tracer, last'.obj) IN
                   ret' = Returned(
                      CASE last'.transform = "lambda x: x" -> slot
                        [] last'.transform = "lambda x: x.proxy" -> slot.proxy
                        [] last'.transform = "lambda _: True" -> B(TRUE)
                        [] last'.transform = "lambda e: e.force()" -> ThunkValue(thunks, slot))
        /\ IsCall("has_proxy_slot")' =>
           /\ Tables' = Tables
           /\ ret' = Returned(B(in_tracker(Tracer, last'.obj)))
      ]_vars

\* C3 witness: a lookup of an unbound tensor with a transform and a default
\* has returned the default
C3_Witness ==
    /\ IsCall("get_proxy_slot")
    /\ last.old = None
    /\ last.transform = "lambda _: True"
    /\ last.default = B(FALSE)
    /\ ret = Returned(B(FALSE))

-----------------------------------------------------------------------------
(* One tracing session of make_fx *)

Real(numel, data) == Tensor("Tensor", numel, data, StaticMeta)
Fake(numel, meta) == Tensor("FakeTensor", numel, NoData, meta)
Subclass(numel, data) == Tensor("Subclass", numel, data, StaticMeta)

\* the sessions traced: the configuration and the tensors that exist when
\* the trace starts (the inputs first, then tensors the function closes over)
Sessions ==
    {[config |-> Config("real", TRUE, FALSE, {}, 1,
                        {"add_.Tensor", "item.default"}, "any"),
      heap |-> <<Real(1, 1), Real(1, 0)>>],
     [config |-> Config("real", TRUE, FALSE, {}, 0,
                        {"add.Tensor", "item.default", "torch.tensor"}, "any"),
      heap |-> <<Real(2, 0)>>],
     [config |-> Config("real", TRUE, FALSE, {}, 0,
                        {"add_.Tensor", "torch.tensor"}, "any"),
      heap |-> <<Real(1, 0)>>],
     [config |-> Config("real", TRUE, FALSE, {}, 1,
                        {"add.Tensor"}, "any"),
      heap |-> <<Subclass(1, 1), Subclass(1, 0)>>],
     [config |-> Config("real", TRUE, FALSE, {}, 1,
                        {"add.Tensor", "trace_subgraph"}, "any"),
      heap |-> <<Real(1, 1), Real(1, 0)>>],
     [config |-> Config("fake", TRUE, FALSE, {}, 1,
                        {"trace_subgraph"}, "any"),
      heap |-> <<Fake(1, StaticMeta)>>],
     [config |-> Config("symbolic", TRUE, FALSE, {}, 1,
                        {"expand.default", "__sym_dispatch__"}, "of inputs"),
      heap |-> <<Fake(2, Meta(<<1>>, <<0>>, 1, 0, FALSE))>>],
     [config |-> Config("symbolic", TRUE, FALSE, {}, 1,
                        {"clone.default", "__sym_dispatch__", "enable_tracing"}, "of inputs"),
      heap |-> <<Fake(2, Meta(<<1>>, <<0>>, 1, 0, FALSE))>>],
     [config |-> Config("real", TRUE, FALSE, {"silu.default"}, 1,
                        {"add.Tensor", "clone.default"}, "scenario"),
      heap |-> <<Real(2, 1)>>],
     [config |-> Config("real", FALSE, TRUE, {"silu.default"}, 1,
                        {"silu.default", "item.default"}, "any"),
      heap |-> <<Real(1, 1)>>],
     [config |-> Config("fake", TRUE, FALSE, {}, 1,
                        {"add.Tensor", "item.default", "torch.tensor"}, "any"),
      heap |-> <<Fake(1, StaticMeta)>>],
     [config |-> Config("symbolic", TRUE, FALSE, {}, 1,
                        {"mul.Tensor", "rand_like.default", "torch.tensor"}, "any"),
      heap |-> <<Fake(1, StaticMeta)>>],
     [config |-> Config("fake", TRUE, FALSE, {}, 1,
                        {"equal.default"}, "any"),
      heap |-> <<Fake(1, StaticMeta), Real(1, 1)>>],
     [config |-> Config("real", TRUE, FALSE, {"clone.default"}, 1,
                        {"clone.default"}, "any"),
      heap |-> <<Real(1, 1)>>],
     [config |-> Config("real", FALSE, FALSE, {"clone.default"}, 1,
                        {"clone.default"}, "any"),
      heap |-> <<Real(1, 1)>>],
     [config |-> Config("symbolic", TRUE, FALSE, {}, 1,
                        {"first_size.default", "expand.default"}, "of inputs"),
      heap |-> <<Fake(2, Meta(<<1>>, <<0>>, 1, 0, FALSE))>>],
     [config |-> Config("symbolic", TRUE, FALSE, {}, 2,
                        {"expand.default", "item.default"}, "any"),
      heap |-> <<Fake(2, Meta(<<1>>, <<0>>, 2, 0, FALSE)),
                 Fake(2, Meta(<<1>>, <<0>>, 1, 0, FALSE))>>]}

Init ==
    /\ graph = <<>>
    /\ tensor_tracker = EmptyDict
    /\ symnode_tracker = EmptyDict
    /\ script_object_tracker = EmptyDict
    /\ thunks = <<>>
    /\ \E s \in Sessions :
          /\ heap = s.heap
          /\ config = s.config
          /\ proxy_mode = ProxyTorchDispatchMode(s.config)
    /\ CURRENT_DECOMPOSITION_TABLE = {}
    /\ phase = "new"
    /\ last = NoCall
    /\ ret = Returned(None)
    /\ modes = NoModes
    /\ makefx = _MakefxTracer
    /\ module_tracer = None
    /\ function_modes = NoFunctionModes
    /\ torch_fn = NoTorchFn

\* wrap_key's wrapped up to the call of f: the placeholders made
\* for the inputs are associated with the input tensors; _trace_inner has
\* entered decompose(self.decomposition_table) before
RECURSIVE track_inputs(_, _, _, _)
track_inputs(tr, n, hp, i) ==
    IF i > n THEN tr
    ELSE track_inputs(track_tensor_tree(tr, T(i), P(i), None, hp), n, hp, i + 1)

RECURSIVE placeholders(_, _)
placeholders(tr, n) ==
    IF n = 0 THEN tr
    ELSE create_proxy(placeholders(tr, n - 1), "placeholder", "arg", <<>>).tr

WrapKeyEnter ==
    /\ phase = "new"
    /\ SetTracer(track_inputs(placeholders(Tracer, config.ninputs), config.ninputs, heap, 1))
    /\ makefx' = _init_modes_from_inputs(makefx, config)
    /\ SetCtx(_trace_inner_enter(Ctx(modes, CURRENT_DECOMPOSITION_TABLE),
                                 _init_modes_from_inputs(makefx, config), config))
    /\ phase' = "tracing"
    /\ last' = [op |-> "wrap_key"]
    /\ ret' = Returned(None)
    /\ UNCHANGED <<heap, config, proxy_mode, module_tracer,
                   function_modes, torch_fn>>

\* the operators the traced function calls, and the arguments it may give
UserFuncs == {"add.Tensor", "add_.Tensor", "clone.default", "item.default",
              "expand.default", "silu.default", "equal.default", "mul.Tensor",
              "rand_like.default", "first_size.default"}

SymNodesOf(meta) ==
    ({meta.size[i] : i \in DOMAIN meta.size} \cup {meta.stride[i] : i \in DOMAIN meta.stride}
     \cup {meta.numel, meta.storage_offset}) \ {0}

\* the SymInts the function can hold: sizes of tensors it can reach, results
\* of earlier calls, a SymInt that is a literal constant (3), and a SymInt
\* that comes from outside the trace and was never tracked (9)
UserSyms ==
    UNION {SymNodesOf(heap[i].meta) : i \in 1..Len(heap)} \cup DOMAIN symnode_tracker
    \cup {3, 9}

UserArgs(func) ==
    LET ts == {T(i) : i \in 1..Len(heap)} IN
    IF func = "mul.Tensor" THEN {<<a, n>> : a \in ts, n \in {L(1), S(3, 2)}}
    ELSE IF func \in BinaryFuncs THEN {<<a, b>> : a \in ts, b \in ts \cup {L(1)}}
    ELSE IF func = "equal.default" THEN {<<a, b>> : a \in ts, b \in ts}
    ELSE IF func = "expand.default"
    THEN {<<a, n>> : a \in ts, n \in {L(2)} \cup {S(x, 2) : x \in UserSyms}}
    ELSE {<<a>> : a \in ts}

\* the function traced: any sequence of calls, or calls on its inputs and
\* the symbolic scalars it computed from their sizes, or y = x + 1;
\* z = y.clone()
ProgAllows(func, args) ==
    \/ config.prog = "any"
    \/ /\ config.prog = "of inputs"
       /\ \A i \in DOMAIN args :
             /\ isinstance(args[i], "T") => args[i].id <= config.ninputs
             /\ isinstance(args[i], "S") => in_tracker(Tracer, args[i])
    \/ /\ config.prog = "scenario"
       /\ last.op = "wrap_key"
       /\ func = "add.Tensor"
       /\ args = <<T(1), L(1)>>
    \/ /\ config.prog = "scenario"
       /\ last.op = "__torch_dispatch__"
       /\ last.func = "add.Tensor"
       /\ func = "clone.default"
       /\ args = <<ret.val>>

\* the tensors the function may return: the first and the last made
UserReturns == {1, Len(heap)}

ProgReturns(out) ==
    \/ config.prog # "scenario"
    \/ /\ last.op = "__torch_dispatch__"
       /\ last.func = "clone.default"
       /\ out = ret.val

\* an exception that nothing catches leaves every scope of _trace_inner
Unwind(cx, exc) == IF exc THEN ExitStack__exit__(cx, 0, TRUE) ELSE cx

\* the end of an intercepted call: its effects, and for an exception the end
\* of the whole trace call
Finish(res) ==
    /\ Len(res.tr.graph) <= MaxNodes
    /\ Len(res.heap) <= MaxTensors
    /\ SetTracer(res.tr)
    /\ heap' = res.heap
    /\ proxy_mode' = res.pm
    /\ ret' = res.ret
    /\ phase' = IF res.ret.tag = "raise" THEN "failed" ELSE phase
    /\ SetCtx(Unwind(Ctx(res.md, CURRENT_DECOMPOSITION_TABLE), res.ret.tag = "raise"))
    /\ makefx' = IF res.ret.tag = "raise" THEN trace_raise(makefx, config, res.tr.graph)
                 ELSE makefx
    /\ UNCHANGED <<config, module_tracer,
                   function_modes, torch_fn>>

\* ProxyTorchDispatchMode.__torch_dispatch__(func, types, args, kwargs) for
\* an operator the traced function calls
TorchDispatch ==
    /\ phase = "tracing"
    /\ \E func \in UserFuncs \cap config.funcs :
          \E args \in UserArgs(func) :
             /\ ProgAllows(func, args)
             /\ last' = [op |-> "__torch_dispatch__", func |-> func, args |-> args,
                         nodes |-> Len(graph)]
             /\ Finish(__torch_dispatch__(
                   Machine(Tracer, heap, proxy_mode, CURRENT_DECOMPOSITION_TABLE, modes),
                   func, args))

\* torch.tensor(data): a plain tensor is allocated with all modes disabled
\* and aten.lift_fresh is called on it
TorchTensor ==
    /\ phase = "tracing"
    /\ "torch.tensor" \in config.funcs
    /\ \E numel \in {1, 2} :
          LET hp == Append(heap, Real(numel, 1))
              args == <<T(Len(hp))>>
          IN /\ last' = [op |-> "__torch_dispatch__", func |-> "lift_fresh.default",
                         args |-> args, nodes |-> Len(graph)]
             /\ Finish(__torch_dispatch__(
                   Machine(Tracer, hp, proxy_mode, CURRENT_DECOMPOSITION_TABLE, modes),
                   "lift_fresh.default", args))

\* an operator on symbolic scalars the traced function calls, s * n or
\* n * s for a tracked scalar s and a number n: it goes to the __sym_dispatch__
\* of the session's symbolic sub-layer
SymDispatch ==
    /\ phase = "tracing"
    /\ "__sym_dispatch__" \in config.funcs
    /\ \E s \in DOMAIN symnode_tracker, n \in {L(0), L(1), L(2)}, swap \in BOOLEAN :
          LET args == IF swap /\ n = L(1) THEN <<n, S(s, 2)>> ELSE <<S(s, 2), n>>
              res == __sym_dispatch__(Tracer, modes.sym_enable_tracing[modes.proxy.id],
                                      "mul", args, fresh_symnode(Tracer), heap)
          IN /\ Cardinality(DOMAIN res.tr.symnode_tracker) <= MaxSyms
             /\ SetTracer(res.tr)
             /\ last' = [op |-> "__sym_dispatch__", func |-> "mul", args |-> args,
                         nodes |-> Len(graph)]
             /\ ret' = res.ret
    /\ UNCHANGED <<heap, config, proxy_mode, CURRENT_DECOMPOSITION_TABLE, phase, modes,
                   makefx, module_tracer,
                   function_modes, torch_fn>>

\* enable_tracing of the recording layer, or of its symbolic sub-layer, is
\* assigned by the code that is being traced
SetEnableTracing ==
    /\ phase = "tracing"
    /\ "enable_tracing" \in config.funcs
    /\ \E b \in BOOLEAN :
          \/ /\ proxy_mode' = [proxy_mode EXCEPT !.enable_tracing = b]
             /\ modes' = modes
          \/ /\ modes' = [modes EXCEPT !.sym_enable_tracing[modes.proxy.id] = b]
             /\ proxy_mode' = proxy_mode
    /\ last' = [op |-> "enable_tracing"]
    /\ ret' = Returned(None)
    /\ UNCHANGED <<graph, tensor_tracker, symnode_tracker, script_object_tracker,
                   thunks, heap, config, CURRENT_DECOMPOSITION_TABLE, phase, makefx,
                   module_tracer,
                   function_modes, torch_fn>>

\* the configuration of the _MakefxTracer that trace_subgraph makes: the
\* parent's, with tracing_mode "real", for a function of one tensor
sub_config(cfg) ==
    Config("real", cfg._error_on_data_dependent_ops, cfg.pre_dispatch,
           cfg.decomposition_table, 1, {}, "any")

\* wrap_key's wrapped after the sub-session's function returned
sub_return(r) ==
    [res |-> r,
     c |-> create_proxy(r.tr, "output", "output",
                        <<get_proxy_slot(r.tr, r.ret.val, r.ret.val, "lambda x: x.proxy",
                                         r.heap).ret.val>>)]

\* dispatch_trace of the sub-session's function lambda x: x + b on T(x),
\* with tracer tr: the placeholder is bound to the input, the call of add is
\* intercepted by the sub-session's layer, the output node is made
sub_dispatch_trace(tr, x, b, hp, pm, cx) ==
    sub_return(__torch_dispatch__(
        Machine(track_tensor_tree(placeholders(tr, 1), T(x), P(Len(tr.graph) + 1), None, hp),
                hp, pm, cx.table, cx.md),
        "add.Tensor", <<T(x), b>>))

\* the tracer object a sub-session works on: the session's own is 1
tracer_object(i) == IF i = 1 THEN Tracer ELSE EmptyTracer

\* trace_subgraph once the sub-session's dispatch_trace has returned t: the
\* scopes of the sub-session are left, the parent's tracer is what it is
SubSessionEnd(x, b, cfg, sub_tracer, cx, t) ==
    /\ Len(t.res.heap) <= MaxTensors
    /\ SetTracer(IF sub_tracer.self.fx_tracer.id = 1 THEN t.c.tr ELSE Tracer)
    /\ heap' = t.res.heap
    /\ SetCtx(ExitStack__exit__(cx, Len(modes.scopes), FALSE))
    /\ last' = [op |-> "trace_subgraph", args |-> <<T(x), b>>,
                sub |-> sub_tracer.self, tracer |-> t.c.tr, active |-> cx.md.proxy]
    /\ ret' = Returned(trace_return(sub_tracer, cfg, t.c.tr.graph).result)

SubSessionIn(x, b, cfg, sub_tracer, cx) ==
    SubSessionEnd(x, b, cfg, sub_tracer, cx,
                  sub_dispatch_trace(tracer_object(sub_tracer.self.fx_tracer.id), x, b,
                                     heap,
                                     [ProxyTorchDispatchMode(cfg) EXCEPT
                                         !.id = sub_tracer.self.proxy_mode.id],
                                     cx))

SubSession(x, b, cfg, sub_tracer) ==
    SubSessionIn(x, b, cfg, sub_tracer,
                 _trace_inner_enter(Ctx(modes, CURRENT_DECOMPOSITION_TABLE), sub_tracer, cfg))

\* _MakefxTracer.trace_subgraph(f, x), called by the traced function: a new
\* _MakefxTracer takes its modes from the parent, _trace_inner runs with
\* them, and the sub-session's graph module is returned
TraceSubgraph ==
    /\ phase = "tracing"
    /\ "trace_subgraph" \in config.funcs
    /\ \E x \in 1..Len(heap) :
          \E b \in {L(1)} \cup {T(j) : j \in 1..Len(heap)} :
             SubSession(x, b, sub_config(config),
                        _init_modes_from_parent(_MakefxTracer, makefx, sub_config(config)))
    /\ UNCHANGED <<config, proxy_mode, phase, makefx, module_tracer,
                   function_modes, torch_fn>>

\* wrap_key's wrapped after f returned out: the tensor is replaced
\* by its proxy, and the tracer makes the output node; dispatch_trace makes
\* the graph module and trace returns it
WrapKeyReturn ==
    /\ phase = "tracing"
    /\ \E i \in UserReturns :
          LET out == get_proxy_slot(Tracer, T(i), T(i), "lambda x: x.proxy", heap).ret.val
              c == create_proxy(Tracer, "output", "output", <<out>>)
          IN /\ ProgReturns(T(i))
             /\ Len(c.tr.graph) <= MaxNodes + 1
             /\ SetTracer(c.tr)
             /\ last' = [op |-> "return", out |-> T(i)]
             /\ ret' = Returned(c.v)
             /\ makefx' = trace_return(makefx, config, c.tr.graph)
    /\ SetCtx(ExitStack__exit__(Ctx(modes, CURRENT_DECOMPOSITION_TABLE), 0, FALSE))
    /\ phase' = "done"
    /\ UNCHANGED <<heap, config, proxy_mode, module_tracer,
                   function_modes, torch_fn>>

Next ==
    \/ WrapKeyEnter
    \/ TorchDispatch
    \/ TorchTensor
    \/ SymDispatch
    \/ SetEnableTracing
    \/ TraceSubgraph
    \/ WrapKeyReturn

Spec == Init /\ [][Next]_vars

-----------------------------------------------------------------------------
(* Claims about recorded operations, checked under Spec *)

\* a step that is an intercepted operator call
Dispatched == phase = "tracing" /\ last'.op = "__torch_dispatch__"

IsDataDependent(func) == "data_dependent_output" \in Tags(func)

QueryTargets == {"sym_size.int", "sym_stride.int", "sym_numel.default",
                 "sym_storage_offset.default"}

\* the nodes a step appends that are shape queries
NewQueries == {i \in (Len(graph) + 1)..Len(graph') : graph'[i].target \in QueryTargets}

\* C4: a thunk's computation runs once: a forced thunk never changes, and a
\* call with a SymInt argument leaves the argument's thunk forced, appends
\* the thunk's shape query only if the thunk was not forced before (nothing
\* if it just holds a proxy, the node of the operator if it holds a
\* symbolic-scalar computation), and passes the cached proxy to the
\* recorded node.
C4_ThunkRunsOnce ==
    [][ /\ \A i \in DOMAIN thunks :
              thunks[i].f = None => (i \in DOMAIN thunks' /\ thunks'[i] = thunks[i])
        /\ (Dispatched /\ ret'.tag = "return") =>
              \A i \in 1..Len(last'.args) :
                 (isinstance(last'.args[i], "S") /\ sym_constant(last'.args[i].id) = None) =>
                    LET th == symnode_tracker[last'.args[i].id].id
                        f == thunks[th].f
                    IN /\ thunks'[th].f = None
                       /\ graph'[Len(graph')].args[i] = thunks'[th].r
                       /\ IF f = None
                          THEN NewQueries = {}
                          ELSE IF f.fn = "lambda: proxy"
                          THEN NewQueries = {} /\ thunks'[th].r = f.proxy
                          ELSE IF f.fn = "_compute_proxy"
                          THEN /\ thunks'[th].r.id > Len(graph)
                               /\ graph'[thunks'[th].r.id].target = f.func
                          ELSE /\ NewQueries = {thunks'[th].r.id}
                               /\ graph'[thunks'[th].r.id].target = f.fn
                               /\ graph'[thunks'[th].r.id].args = <<f.proxy>> \o f.args
      ]_vars

\* C4 witness: a call was given a SymInt whose shape query was in the graph
\* before the call, and appended its own node only
C4_Witness ==
    /\ last.op = "__torch_dispatch__"
    /\ last.func = "expand.default"
    /\ ret.tag = "return"
    /\ isinstance(last.args[2], "S")
    /\ last.args[2].id \in DOMAIN symnode_tracker
    /\ thunks[symnode_tracker[last.args[2].id].id].f = None
    /\ graph[thunks[symnode_tracker[last.args[2].id].id].r.id].target \in QueryTargets
    /\ thunks[symnode_tracker[last.args[2].id].id].r.id <= last.nodes
    /\ Len(graph) = last.nodes + 1

ConstArg(i) ==
    IF in_tracker(Tracer, last'.args[i])
    THEN const_of(slot_of(Tracer, last'.args[i]))
    ELSE last'.args[i]

\* C6: a data-dependent operator called on tensors that each carry a
\* captured constant (or are real tensors without slot, which count as
\* constant) returns what the operator computes on the constants, appends
\* no node and changes no slot table.
C6_ConstantDataDependent ==
    [][ (/\ Dispatched
         /\ IsDataDependent(last'.func)
         /\ \A i \in TensorArgs(last'.args) :
               IF in_tracker(Tracer, last'.args[i])
               THEN slot_of(Tracer, last'.args[i]).constant # None
               ELSE ~ is_fake(heap[last'.args[i].id])) =>
            /\ graph' = graph
            /\ Tables' = Tables
            /\ thunks' = thunks
            /\ heap' = heap
            /\ IF last'.func = "equal.default"
               THEN ret' = Returned(B(/\ arg_numel(ConstArg(1), heap) = arg_numel(ConstArg(2), heap)
                                      /\ arg_data(ConstArg(1), heap) = arg_data(ConstArg(2), heap)))
               ELSE /\ arg_numel(ConstArg(1), heap) = 1
                          => ret' = Returned(L(arg_data(ConstArg(1), heap)))
                    /\ arg_numel(ConstArg(1), heap) # 1 => ret'.tag = "raise"
      ]_vars

\* C6 witness: item() on a simulated tensor that carries a captured constant
\* has returned the constant's element
C6_Witness ==
    /\ last.op = "__torch_dispatch__"
    /\ last.func = "item.default"
    /\ is_fake(heap[last.args[1].id])
    /\ in_tracker(Tracer, last.args[1])
    /\ slot_of(Tracer, last.args[1]).constant = Const(1, 1)
    /\ ret = Returned(L(1))
    /\ Len(graph) = last.nodes

\* C7: no tensor slot holds a captured constant of more than
\* CONSTANT_NUMEL_LIMIT elements.
C7_ConstantNumelLimit ==
    \A i \in DOMAIN tensor_tracker :
       tensor_tracker[i].constant # None
          => constant_numel(tensor_tracker[i].constant, heap) <= CONSTANT_NUMEL_LIMIT

\* C7 witness: an addition of a captured constant and a two-element tensor
\* without slot, all constant, has bound its two-element result without
\* constant
C7_Witness ==
    /\ last.op = "__torch_dispatch__"
    /\ last.func = "add.Tensor"
    /\ ret.tag = "return"
    /\ isinstance(last.args[2], "T")
    /\ in_tracker(Tracer, last.args[1])
    /\ slot_of(Tracer, last.args[1]).constant # None
    /\ ~ in_tracker(Tracer, last.args[2])
    /\ heap[ret.val.id].numel = 2
    /\ slot_of(Tracer, ret.val).constant = None

\* C8: after an in-place operator was recorded with a tracked tensor as its
\* first argument, that tensor's slot holds the proxy of the node the call
\* appended, not the proxy it held before.
C8_InplaceRebinds ==
    [][ (/\ Dispatched
         /\ is_inplace_name(PacketName(last'.func))
         /\ in_tracker(Tracer, last'.args[1])
         /\ ret'.tag = "return") =>
            LET got == get_proxy_slot(Tracer', last'.args[1], no_default,
                                      "lambda x: x.proxy", heap')
            IN /\ Len(graph') > Len(graph)
               /\ graph'[Len(graph')].target = last'.func
               /\ got.ret = Returned(P(Len(graph')))
               /\ got.ret.val # slot_of(Tracer, last'.args[1]).proxy
               /\ ret'.val = last'.args[1]
      ]_vars

\* C8 witness: add_ on the traced function's input has moved the input's
\* slot from its placeholder to the add_ node
C8_Witness ==
    /\ last.op = "__torch_dispatch__"
    /\ last.func = "add_.Tensor"
    /\ last.args[1] = T(1)
    /\ ret = Returned(T(1))
    /\ graph[1].op = "placeholder"
    /\ graph[Len(graph)].target = "add_.Tensor"
    /\ tensor_tracker[1].proxy = P(Len(graph))

\* the node the slot of the symbolic scalar of node n is bound to: the
\* result of its thunk, or the proxy its closure holds
BoundTo(n, i) ==
    \/ thunks[symnode_tracker[n].id].r = P(i)
    \/ /\ thunks[symnode_tracker[n].id].f # None
       /\ thunks[symnode_tracker[n].id].f.fn = "lambda: proxy"
       /\ thunks[symnode_tracker[n].id].f.proxy = P(i)

\* the nodes that stand for the symbolic scalar of node n: the shape queries
\* whose value it is, and the node its slot is bound to (the node of a call
\* that returned the scalar when it had a slot already is not among them,
\* no use of the scalar refers to it)
DimNodes(n) ==
    {i \in 1..Len(graph) :
        /\ graph[i].val = [k |-> "S", id |-> n]
        /\ (graph[i].target \in QueryTargets \/ BoundTo(n, i))}

\* the tracked tensors that have n among their sizes, strides, element
\* count and storage offset
TensorsOf(n) == {i \in DOMAIN tensor_tracker : n \in SymNodesOf(heap[i].meta)}

\* the proxy of the first tracked of them: nodes are made in tracking order
FirstProxy(n) ==
    CHOOSE p \in {tensor_tracker[i].proxy : i \in TensorsOf(n)} :
       \A i \in TensorsOf(n) : p.id <= tensor_tracker[i].proxy.id

CallNodes == SelectSeq(graph, LAMBDA nd : nd.op = "call_function")

TracedScenario == config.prog = "scenario" /\ phase = "done"

\* C10: the trace of y = x + 1; z = y.clone(); return z has exactly two call
\* nodes, add on the placeholder and clone on the add node, between the
\* placeholder and the output node, which refers to the clone node.
C10_AddCloneGraph ==
    TracedScenario =>
       /\ [i \in 1..Len(graph) |-> graph[i].op]
             = <<"placeholder", "call_function", "call_function", "output">>
       /\ [i \in 1..Len(CallNodes) |-> CallNodes[i].target] = <<"add.Tensor", "clone.default">>
       /\ graph[2].args = <<P(1), L(1)>>
       /\ graph[3].args = <<P(2)>>
       /\ graph[4].args = <<P(3)>>

\* C10 witness: the trace is complete
C10_Witness ==
    /\ TracedScenario
    /\ Len(graph) = 4
    /\ graph[4].op = "output"
    /\ graph[4].args = <<P(3)>>
    /\ graph[3].target = "clone.default"

\* C10 as stated: the trace has exactly three call nodes and its output node
\* refers to the clone node.
C10_ThreeCallNodes ==
    TracedScenario =>
       /\ Len(CallNodes) = 3
       /\ \E i \in 1..Len(graph) :
             /\ graph[i].target = "clone.default"
             /\ graph[Len(graph)].args = <<P(i)>>

\* the tensor arguments of a call that the recording layer cannot handle:
\* of a type outside HANDLED_TYPES and without slot
Unrecognized(args) ==
    {i \in TensorArgs(args) : /\ args[i].id \in DOMAIN heap
                              /\ heap[args[i].id].typ \notin HANDLED_TYPES
                              /\ ~ in_tracker(Tracer, args[i])}

\* C11: a call with a tensor argument of a type outside the handled kinds
\* and without slot returns NotImplemented: nothing is raised, no node is
\* appended, no table changes and the operator does not run (no tensor is
\* made or changed).
C11_UnrecognizedNotImplemented ==
    [][ (Dispatched /\ Unrecognized(last'.args) # {}) =>
           /\ ret' = Returned(NotImplemented)
           /\ graph' = graph
           /\ Tables' = Tables
           /\ thunks' = thunks
           /\ heap' = heap
           /\ phase' = "tracing"
      ]_vars

\* C11 witness: an addition of the tracked input and a closed-over tensor of
\* an unhandled type has returned NotImplemented
C11_Witness ==
    /\ last.op = "__torch_dispatch__"
    /\ last.func = "add.Tensor"
    /\ last.args = <<T(1), T(2)>>
    /\ heap[2].typ = "Subclass"
    /\ ~ in_tracker(Tracer, T(2))
    /\ in_tracker(Tracer, T(1))
    /\ ret = Returned(NotImplemented)
    /\ Len(graph) = last.nodes

\* the operator a step has recorded directly as the last node of the graph
RecordedFunc ==
    IF last'.func = "lift_fresh.default" THEN "lift_fresh_copy.default" ELSE last'.func

RecordedDirectly ==
    /\ Dispatched
    /\ ret'.tag = "return"
    /\ Len(graph') > Len(graph)
    /\ graph'[Len(graph')].op = "call_function"
    /\ graph'[Len(graph')].target = RecordedFunc

\* the tensors before the call, with the fresh tensor torch.tensor makes
HeapBefore ==
    IF last'.args[1].id > Len(heap) THEN Append(heap, heap'[Len(heap) + 1]) ELSE heap

\* one run of the real operator on the runtime arguments
RealCall ==
    Kernel(RecordedFunc, last'.args, HeapBefore, fake_mode_active(proxy_mode),
           proxy_mode.tracing_mode = "symbolic", FALSE, fresh_symnode(Tracer))

\* C12 as stated: what a recorded call returns is the result of the real
\* operator applied once to the runtime arguments: the returned value and
\* the contents of every tensor are those one run of the operator leaves.
C12_ReturnsRealResult ==
    [][ RecordedDirectly =>
           /\ ret' = RealCall.ret
           /\ ret'.val.k \in {"T", "L", "S"}
           /\ Len(heap') = Len(RealCall.heap)
           /\ \A i \in DOMAIN heap' : heap'[i].data = RealCall.heap[i].data
      ]_vars

-----------------------------------------------------------------------------
(* Nested scopes of the interception layers *)

MaxDepth == 3

InitModes ==
    /\ graph = <<>>
    /\ tensor_tracker = EmptyDict
    /\ symnode_tracker = EmptyDict
    /\ script_object_tracker = EmptyDict
    /\ thunks = <<>>
    /\ heap = <<Tensor("Tensor", 1, 0, StaticMeta)>>
    /\ config = Config("real", TRUE, FALSE, {}, 0, {}, "any")
    /\ proxy_mode = ProxyTorchDispatchMode(config)
    /\ CURRENT_DECOMPOSITION_TABLE = {}
    /\ phase = "tracing"
    /\ last = NoCall
    /\ ret = Returned(None)
    /\ modes = NoModes
    /\ makefx = None
    /\ module_tracer = None
    /\ function_modes = NoFunctionModes
    /\ torch_fn = NoTorchFn

With(sc) ==
    /\ Len(modes.scopes) < MaxDepth
    /\ SetCtx(enter_context(Ctx(modes, CURRENT_DECOMPOSITION_TABLE), sc))
    /\ last' = [op |-> "enter", scope |-> sc]
    /\ ret' = Returned(None)
    /\ UNCHANGED <<graph, tensor_tracker, symnode_tracker, script_object_tracker,
                   thunks, heap, config, proxy_mode, phase, makefx, module_tracer,
                   function_modes, torch_fn>>

\* with proxy_mode: ... is entered, for either instance
WithProxyMode == \E l \in Layers : With(Scope("mode", l, None))

\* with proxy_mode.sym_mode.enable(b): ... is entered
WithEnable == \E l \in Layers, b \in BOOLEAN : With(Scope("enable", l, b))

\* with decompose(table): ... is entered
WithDecompose == \E t \in DecompTables : With(Scope("decompose", 0, t))

\* the innermost with statement is left, by reaching its end or by an
\* exception raised in its body
WithExit ==
    /\ modes.scopes # <<>>
    /\ \E exc \in BOOLEAN :
          /\ SetCtx(exit_context(Ctx(modes, CURRENT_DECOMPOSITION_TABLE), exc))
          /\ last' = [op |-> "exit", scope |-> modes.scopes[Len(modes.scopes)],
                      exc |-> exc]
          /\ ret' = IF exc THEN Raised("Exception") ELSE Returned(None)
    /\ UNCHANGED <<graph, tensor_tracker, symnode_tracker, script_object_tracker,
                   thunks, heap, config, proxy_mode, phase, makefx, module_tracer,
                   function_modes, torch_fn>>

NextModes == WithProxyMode \/ WithEnable \/ WithDecompose \/ WithExit

SpecModes == InitModes /\ [][NextModes]_vars

-----------------------------------------------------------------------------
(* Claims about the interception layers, checked under SpecModes *)

\* a step that leaves the innermost scope
Exited ==
    /\ last'.op = "exit"
    /\ modes.scopes # <<>>
    /\ modes'.scopes = SubSeq(modes.scopes, 1, Len(modes.scopes) - 1)

\* C13: whatever the nesting of scopes (the same instance entered again, or
\* the other instance entered), after a scope is left at its end the layer in
\* the PROXY slot is the one that was there before the scope was entered, or
\* none if there was none.
C13_ExitRestoresLayer ==
    [][ (Exited /\ ~ last'.exc) =>
           modes'.proxy = last'.scope.before.proxy ]_vars

\* the same instance was entered inside its own scope, the other instance was
\* entered inside that and has been left: the first instance is active again
C13_Witness ==
    /\ last.op = "exit"
    /\ ~ last.exc
    /\ last.scope.kind = "mode"
    /\ last.scope.l = 2
    /\ last.scope.before.proxy = Mode(1)
    /\ modes.proxy = Mode(1)
    /\ modes.enter_stack[1] = <<None, Mode(1)>>
    /\ modes.enter_stack[2] = <<>>

\* C14: when a scope is left by an exception, the restoration is that of a
\* normal exit: the layer in the PROXY slot, every symbolic sub-layer's flag
\* and the active decomposition table are what they were before the scope
\* was entered.
C14_ExceptionRestores ==
    [][ (Exited /\ last'.exc) =>
           /\ modes'.proxy = last'.scope.before.proxy
           /\ modes'.sym_enable_tracing = last'.scope.before.sym_enable_tracing
           /\ CURRENT_DECOMPOSITION_TABLE' = last'.scope.before.table ]_vars

\* `with proxy_mode` of the first instance, entered while the second was
\* active and the first's symbolic sub-layer was disabled, left by an
\* exception: the second is active again and the flag is false again
C14_Witness ==
    /\ last.op = "exit"
    /\ last.exc
    /\ ret = Raised("Exception")
    /\ last.scope.kind = "mode"
    /\ last.scope.l = 1
    /\ last.scope.before.proxy = Mode(2)
    /\ ~ last.scope.before.sym_enable_tracing[1]
    /\ modes.proxy = Mode(2)
    /\ ~ modes.sym_enable_tracing[1]

-----------------------------------------------------------------------------
(* Claims about the whole trace call, checked under Spec *)

\* a step with which the trace call ends, by returning or by an exception
TraceEnds == phase = "tracing" /\ phase' \in {"done", "failed"}

\* C15: when trace returns or raises, the six per-session fields are back to
\* the values they had before the call (those of a new _MakefxTracer), and
\* under symbolic tracing the graph module returned carries the shape
\* environment of the fake tensor mode used during the trace.
C15_FieldsRestored ==
    [][ TraceEnds =>
           /\ makefx'.self = makefx.prev_modes
           /\ makefx'.self = SessionFields
           /\ (phase' = "done" /\ config.tracing_mode = "symbolic") =>
                 /\ makefx.self.fake_tensor_mode.shape_env = ShapeEnv
                 /\ makefx'.result.shape_env = makefx.self.fake_tensor_mode.shape_env
      ]_vars

\* a symbolic trace that recorded a call has returned
C15_Witness ==
    /\ phase = "done"
    /\ config.tracing_mode = "symbolic"
    /\ makefx.self = SessionFields
    /\ makefx.result.k = "GraphModule"
    /\ makefx.result.graph = graph
    /\ makefx.result.shape_env = ShapeEnv
    /\ \E i \in DOMAIN graph : graph[i].op = "call_function"
    /\ modes.proxy = None

\* C16: an exception raised in an intercepted call (the data-dependent error,
\* the error of a lookup of an untracked symbolic scalar) ends the whole
\* trace call: no graph module is returned, and the nodes appended so far
\* stay in the tracer's graph.
C16_FailurePropagates ==
    [][ ((Dispatched /\ ret'.tag = "raise") \/ phase' = "failed") =>
           /\ phase' = "failed"
           /\ makefx'.result = None
           /\ Len(graph') >= Len(graph)
           /\ SubSeq(graph', 1, Len(graph)) = graph ]_vars

\* the trace failed on a data-dependent call after it had recorded a call
C16_Witness ==
    /\ phase = "failed"
    /\ ret = Raised(DataDependentError)
    /\ makefx.result = None
    /\ \E i \in DOMAIN graph : graph[i].op = "call_function"

\* a step that is a call of trace_subgraph
SubTraced == phase = "tracing" /\ last'.op = "trace_subgraph"

\* C17: a sub-session has a tracer of its own and the parent's fake tensor
\* mode; while it runs its own layer is the active one; the nodes and the
\* bindings it makes are in its own graph and tables, the parent's graph,
\* tables and thunks are unchanged, and when it has ended the parent's layer
\* is the active one again.
C17_SubSessionIsolated ==
    [][ SubTraced =>
           /\ last'.sub.fx_tracer # makefx.self.fx_tracer
           /\ last'.sub.fake_tensor_mode = makefx.self.fake_tensor_mode
           /\ last'.active = last'.sub.proxy_mode
           /\ last'.active # makefx.self.proxy_mode
           /\ graph' = graph
           /\ Tables' = Tables
           /\ thunks' = thunks
           /\ ret'.val.graph = last'.tracer.graph
           /\ \E i \in DOMAIN ret'.val.graph :
                 /\ ret'.val.graph[i].op = "call_function"
                 /\ ret'.val.graph[i].target = "add.Tensor"
           /\ in_tracker(last'.tracer, last'.args[1])
           /\ in_tracker(last'.tracer, T(Len(heap')))
           /\ ~ in_tracker(Tracer, T(Len(heap')))
           /\ modes'.proxy = makefx.self.proxy_mode
           /\ modes' = modes ]_vars

\* a sub-session under fake tracing has traced x + 1 for the parent's input
\* after an earlier sub-session: its graph has its own placeholder, call and
\* output, and the parent's graph still has the one placeholder
C17_Witness ==
    /\ last.op = "trace_subgraph"
    /\ phase = "tracing"
    /\ config.tracing_mode = "fake"
    /\ last.sub.fake_tensor_mode = FakeTensorMode(ShapeEnv)
    /\ last.sub.fake_tensor_mode = makefx.self.fake_tensor_mode
    /\ last.args = <<T(1), L(1)>>
    /\ Len(ret.val.graph) = 3
    /\ Len(graph) = 1
    /\ Len(heap) = 3
    /\ modes.proxy = Mode(1)
    /\ in_tracker(last.tracer, T(3))
    /\ DOMAIN tensor_tracker = {1}

\* C18: the graph's node sequence only grows: with every step of a session
\* (an intercepted operator call with the thunks it forces, a symbolic-scalar
\* dispatch, a sub-session, the end of the trace) the nodes there were are
\* an unchanged prefix of the nodes there are.
C18_NodesAppendOnly ==
    [][ /\ Len(graph') >= Len(graph)
        /\ SubSeq(graph', 1, Len(graph)) = graph ]_vars

\* an intercepted call has forced the thunk of a symbolic scalar that a
\* symbolic-scalar dispatch had made: the multiplication and the call were
\* appended after the nodes there were
C18_Witness ==
    /\ last.op = "__torch_dispatch__"
    /\ last.func = "expand.default"
    /\ isinstance(last.args[2], "S")
    /\ last.args[2].id > 10
    /\ Len(graph) >= last.nodes + 2
    /\ graph[Len(graph) - 1].op = "call_function"
    /\ graph[Len(graph) - 1].target = "mul"
    /\ graph[Len(graph)].target = "expand.default"
    /\ graph[1].op = "placeholder"

\* a step that is a symbolic-scalar dispatch
SymDispatched == phase = "tracing" /\ last'.op = "__sym_dispatch__"

\* what the real operator gives for the call of the step
PassedThrough ==
    Kernel(last'.func, last'.args, heap, fake_mode_active(proxy_mode),
           proxy_mode.tracing_mode = "symbolic", FALSE, fresh_symnode(Tracer))

\* C20: while the recording layer's enable_tracing is false, an intercepted
\* call appends no node, changes no slot and no thunk, returns what the real
\* operator returns, and leaves the layer on the mode stack; while the
\* symbolic sub-layer's enable_tracing is false, the same holds of a
\* symbolic-scalar dispatch.
C20_DisabledPassesThrough ==
    [][ /\ (Dispatched /\ ~ proxy_mode.enable_tracing) =>
              /\ graph' = graph
              /\ Tables' = Tables
              /\ thunks' = thunks
              /\ ret' = PassedThrough.ret
              /\ heap' = PassedThrough.heap
              /\ modes' = modes
              /\ modes'.proxy = makefx.self.proxy_mode
        /\ (SymDispatched /\ ~ modes.sym_enable_tracing[modes.proxy.id]) =>
              /\ graph' = graph
              /\ Tables' = Tables
              /\ thunks' = thunks
              /\ ret' = Returned(sym_call(last'.func, last'.args, fresh_symnode(Tracer)))
              /\ modes' = modes
              /\ modes'.proxy = makefx.self.proxy_mode ]_vars

\* with both flags false, clone of the input gave a tensor that has no slot
\* and s * 2 gave a symbolic scalar that has no slot; the graph still has
\* the placeholder only and the layer is still active
C20_Witness ==
    /\ phase = "tracing"
    /\ ~ proxy_mode.enable_tracing
    /\ ~ modes.sym_enable_tracing[1]
    /\ modes.proxy = Mode(1)
    /\ Len(heap) = 2
    /\ ~ in_tracker(Tracer, T(2))
    /\ last.op = "__sym_dispatch__"
    /\ last.args = <<S(1, 2), L(2)>>
    /\ ret = Returned(S(11, 1))
    /\ ~ in_tracker(Tracer, S(11, 1))
    /\ Len(graph) = 1
    /\ thunks = <<>> \/ \A i \in DOMAIN thunks : thunks[i].f.fn # "_compute_proxy"

-----------------------------------------------------------------------------
(* The symbolic-scalar table of each tracer class, checked under SpecTracers *)

\* the tracers a ProxyTorchDispatchMode is constructed with: the
\* PythonKeyTracer of a session (1587, 1657) and the _GraphAppendingTracerEx
\* of a DecompositionInterpreter (1190-1195)
TracerClasses == {"PythonKeyTracer", "_GraphAppendingTracerEx"}

\* two wrappers of one node, and a wrapper of another node
SymObjects == {S(1, 1), S(1, 2), S(2, 1)}

InitTracers ==
    /\ graph = <<>>
    /\ tensor_tracker = EmptyDict
    /\ symnode_tracker = EmptyDict
    /\ script_object_tracker = EmptyDict
    /\ thunks = <<>>
    /\ heap = <<Tensor("Tensor", 1, 0, StaticMeta)>>
    /\ \E c \in TracerClasses :
          config = [Config("real", TRUE, FALSE, {}, 0, {}, "any") EXCEPT !.tracer = c]
    /\ proxy_mode = ProxyTorchDispatchMode(config)
    /\ CURRENT_DECOMPOSITION_TABLE = {}
    /\ phase = "new"
    /\ last = NoCall
    /\ ret = Returned(None)
    /\ modes = NoModes
    /\ makefx = None
    /\ module_tracer = None
    /\ function_modes = NoFunctionModes
    /\ torch_fn = NoTorchFn

\* set_proxy_slot(obj, tracer, thunkify(lambda: proxy)) for a SymInt
SymBind ==
    \E obj \in SymObjects, p \in 1..Len(graph) :
       /\ SetTracer(collect(set_proxy_slot(
              thunkify(Tracer, Closure("lambda: proxy", P(p), <<>>, None)).tr, obj,
              Thunk(Len(thunks) + 1))))
       /\ last' = [op |-> "set_proxy_slot", obj |-> obj, proxy |-> P(p)]
       /\ ret' = Returned(None)
       /\ UNCHANGED session

\* get_proxy_slot(obj, tracer) and get_proxy_slot(obj, tracer, None)
SymLookup ==
    \E obj \in SymObjects, default \in {no_default, None} :
       /\ last' = [op |-> "get_proxy_slot", obj |-> obj, default |-> default]
       /\ ret' = get_proxy_slot(Tracer, obj, default, "lambda x: x", heap).ret
       /\ UNCHANGED <<graph, tensor_tracker, symnode_tracker, script_object_tracker,
                      thunks>>
       /\ UNCHANGED session

\* obj in tracer.symnode_tracker
SymContains ==
    \E obj \in SymObjects :
       /\ last' = [op |-> "__contains__", obj |-> obj]
       /\ ret' = Returned(B(in_tracker(Tracer, obj)))
       /\ UNCHANGED <<graph, tensor_tracker, symnode_tracker, script_object_tracker,
                      thunks>>
       /\ UNCHANGED session

NextTracers == ApiCreateProxy \/ SymBind \/ SymLookup \/ SymContains

SpecTracers == InitTracers /\ [][NextTracers]_vars

\* the wrappers of the node of the object the step is about
SameNode == {b \in SymObjects : b.id = last'.obj.id}

\* C19: in the tracer of either class, two wrappers of one symbolic node hit
\* the same slot: after a bind through one, each is in the table and a
\* lookup through each gives the same thunk, and a bind when another is bound
\* changes nothing; a lookup and a membership test through one give what they
\* give through the others.
C19_KeyedByNode ==
    [][ /\ last'.op = "set_proxy_slot" =>
              \A b \in SameNode :
                 /\ in_tracker(Tracer', b)
                 /\ slot_of(Tracer', b) = slot_of(Tracer', last'.obj)
                 /\ in_tracker(Tracer, b) => symnode_tracker' = symnode_tracker
        /\ last'.op = "get_proxy_slot" =>
              \A b \in SameNode :
                 ret' = get_proxy_slot(Tracer, b, last'.default, "lambda x: x", heap).ret
        /\ last'.op = "__contains__" =>
              \A b \in SameNode : ret' = Returned(B(in_tracker(Tracer, b))) ]_vars

-----------------------------------------------------------------------------
(* _ModuleStackTracer: the access paths of the modules of scope_root *)

MaxProxies == 3
MaxModuleCalls == 2

Module(name) == [k |-> "Module", name |-> name]
GraphModuleObject(name) == [k |-> "GraphModule", name |-> name]
AttrProxy(i) == [k |-> "AttrProxy", id |-> i]

\* isinstance(x, Module): an AttrProxy takes the class of its base
is_Module(x) == x.k \in {"Module", "GraphModule", "AttrProxy"}

\* the hierarchy traced: A is scope_root, D is the child d of both B and C,
\* G is a GraphModule; E is a module the traced code made itself, and F is
\* a module installed on the tracer's own root
scope_root == Module("A")

_modules(mod) ==
    IF mod.name = "A"
    THEN [n \in {"b", "c", "g"} |->
             IF n = "b" THEN Module("B") ELSE IF n = "c" THEN Module("C")
             ELSE GraphModuleObject("G")]
    ELSE IF mod.name \in {"B", "C"} THEN [n \in {"d"} |-> Module("D")]
    ELSE [n \in {} |-> None]

\* submodules.items(), in order
submodule_keys(mod) ==
    IF mod.name = "A" THEN <<"b", "c", "g">>
    ELSE IF mod.name \in {"B", "C"} THEN <<"d">>
    ELSE <<>>

\* the parameters of a module: D has a weight
_parameters(mod) ==
    IF mod.name = "D" THEN [n \in {"weight"} |-> L(1)] ELSE [n \in {} |-> None]

\* Tracer.submodule_paths of the tracer's own root
submodule_paths == [m \in {Module("F")} |-> <<"f">>]

\* _ModuleStackTracer(scope_root), with the module_stack of the Tracer and
\* the warnings issued
_ModuleStackTracer(root) ==
    [scope_root |-> root, proxy_paths |-> EmptyDict, attr_proxy_map |-> EmptyDict,
     proxy_modules |-> EmptyDict, module_stack |-> <<>>, warnings |-> <<>>]

reset_proxy_mapping_once(t, self, base, path) ==
    IF self \in DOMAIN t.proxy_paths THEN t
    ELSE [t EXCEPT !.proxy_paths = Put(@, self, path), !.proxy_modules = Put(@, self, base)]

\* AttrProxy.reset_proxy_mapping(base, path)
reset_proxy_mapping(t, self, base, path) ==
    [t EXCEPT !.proxy_paths = Put(@, self, path), !.proxy_modules = Put(@, self, base)]

\* AttrProxy(base, path): a new object, whose __dict__ is base's
AttrProxy__init__(t, base, path) ==
    [t |-> reset_proxy_mapping(t, AttrProxy(Cardinality(DOMAIN t.proxy_paths) + 1), base, path),
     v |-> AttrProxy(Cardinality(DOMAIN t.proxy_paths) + 1)]

\* the module whose __dict__ an object has
base_of(t, obj) == IF isinstance(obj, "AttrProxy") THEN t.proxy_modules[obj] ELSE obj

\* _ModuleStackTracer.getattr(attr, attr_val, parameter_proxy_cache)
getattr(t, attr, attr_val) ==
    IF ~ is_Module(attr_val) \/ isinstance(attr_val, "GraphModule")
    THEN [t |-> t, v |-> attr_val]
    ELSE IF isinstance(attr_val, "AttrProxy")
    THEN [t |-> t, v |-> attr_val]
    ELSE IF attr_val \notin DOMAIN t.attr_proxy_map
    THEN [t |-> [AttrProxy__init__(t, attr_val, <<attr>>).t EXCEPT
                    !.attr_proxy_map = Put(@, attr_val, AttrProxy__init__(t, attr_val, <<attr>>).v)],
          v |-> AttrProxy__init__(t, attr_val, <<attr>>).v]
    ELSE [t |-> reset_proxy_mapping(t, t.attr_proxy_map[attr_val], attr_val, <<attr>>),
          v |-> t.attr_proxy_map[attr_val]]

\* torch.nn.Module.__getattr__(name), patched while a trace runs: the
\* attribute found in the object's __dict__ is given to the tracer's getattr
Module__getattr__(t, self, name) ==
    getattr(t, name,
            IF name \in DOMAIN _modules(base_of(t, self))
            THEN _modules(base_of(t, self))[name]
            ELSE _parameters(base_of(t, self))[name])

\* AttrProxy.__getattr__(name), after super().__getattr__(name) returned a
\* (in tracer state a.t, value a.v); path is proxy_paths[self] + "." + name
AttrProxy__getattr__cache(t, attr_val, path) ==
    IF attr_val \notin DOMAIN t.attr_proxy_map
    THEN [t |-> [AttrProxy__init__(t, attr_val, path).t EXCEPT
                    !.attr_proxy_map = Put(@, attr_val, AttrProxy__init__(t, attr_val, path).v)],
          v |-> AttrProxy__init__(t, attr_val, path).v]
    ELSE [t |-> reset_proxy_mapping(t, t.attr_proxy_map[attr_val], attr_val, path),
          v |-> t.attr_proxy_map[attr_val]]

AttrProxy__getattr__super(a, self, name) ==
    IF isinstance(a.v, "AttrProxy")
    THEN AttrProxy__getattr__cache(a.t, a.t.proxy_modules[a.v],
                                   Append(a.t.proxy_paths[self], name))
    ELSE IF ~ is_Module(a.v) THEN a
    ELSE AttrProxy__getattr__cache(a.t, a.v, Append(a.t.proxy_paths[self], name))

\* AttrProxy.__getattr__(name)
AttrProxy__getattr__(t, self, name) ==
    AttrProxy__getattr__super(Module__getattr__(t, self, name), self, name)

\* the property AttrProxy._modules: a new AttrProxy for each submodule
RECURSIVE AttrProxy_modules(_, _, _, _)
AttrProxy_modules(t, self, keys, done) ==
    IF keys = <<>> THEN [t |-> t, v |-> done]
    ELSE AttrProxy_modules(
            AttrProxy__init__(t, _modules(base_of(t, self))[Head(keys)],
                              Append(t.proxy_paths[self], Head(keys))).t,
            self, Tail(keys),
            Put(done, Head(keys),
                AttrProxy__init__(t, _modules(base_of(t, self))[Head(keys)],
                                  Append(t.proxy_paths[self], Head(keys))).v))

\* Tracer.path_of_module(mod), with submodule_paths
Tracer_path_of_module(t, mod) ==
    IF mod \in DOMAIN submodule_paths THEN Returned(submodule_paths[mod])
    ELSE Raised("NameError")

\* _ModuleStackTracer.path_of_module(mod)
path_of_module(t, mod) ==
    IF mod = t.scope_root THEN Returned(<<>>)
    ELSE IF isinstance(mod, "AttrProxy") THEN Returned(t.proxy_paths[mod])
    ELSE IF Tracer_path_of_module(t, mod).tag = "raise"
    THEN Raised("_ModuleNotInstalledAsSubmoduleError")
    ELSE Tracer_path_of_module(t, mod)

\* _ModuleStackTracer.create_node for a call_function node: the node gets
\* the module stack as nn_module_stack
ModuleNode(target, args, stack) ==
    [op |-> "call_function", target |-> target, args |-> args, nn_module_stack |-> stack]

_ModuleStackTracer_create_node(t, g, target, args) ==
    Append(g, ModuleNode(target, args, t.module_stack))

RECURSIVE call_module(_, _, _, _)
RECURSIVE forward(_, _, _, _)
RECURSIVE Tracer_call_module(_, _, _, _)

\* the forward of a module, called on m: B and C call their child d on the
\* arguments, every other module records one operation on them
forward(t, g, m, args) ==
    IF isinstance(m, "AttrProxy") /\ "d" \in DOMAIN _modules(base_of(t, m))
    THEN call_module(AttrProxy__getattr__(t, m, "d").t, g,
                     AttrProxy__getattr__(t, m, "d").v, args)
    ELSE [t |-> t, g |-> _ModuleStackTracer_create_node(t, g, base_of(t, m).name, args),
          ret |-> Returned(P(Len(g) + 1))]

\* Tracer.call_module after path_of_module returned path: the scope is
\* pushed on module_stack, forward runs (no module is a leaf module, 1466),
\* the scope is popped
Tracer_call_module_in(t, g, m, args, path) ==
    IF path.tag = "raise" THEN [t |-> t, g |-> g, ret |-> path]
    ELSE [t |-> [forward([t EXCEPT !.module_stack =
                              Append(@, [path |-> path.val, type |-> base_of(t, m).name])],
                         g, m, args).t
                 EXCEPT !.module_stack = SubSeq(@, 1, Len(@) - 1)],
          g |-> forward([t EXCEPT !.module_stack =
                              Append(@, [path |-> path.val, type |-> base_of(t, m).name])],
                        g, m, args).g,
          ret |-> forward([t EXCEPT !.module_stack =
                              Append(@, [path |-> path.val, type |-> base_of(t, m).name])],
                          g, m, args).ret]

Tracer_call_module(t, g, m, args) ==
    Tracer_call_module_in(t, g, m, args, path_of_module(t, m))

\* the except clause of call_module, r being what Tracer.call_module gave
call_module_reraises(r, m, args) == r

call_module_except(r, m, args) ==
    IF r.ret = Raised("_ModuleNotInstalledAsSubmoduleError")
    THEN forward([r.t EXCEPT !.warnings = Append(@, m)], r.g, m, args)
    ELSE r

\* _ModuleStackTracer.call_module(m, forward, args, kwargs)
call_module(t, g, m, args) ==
    IF isinstance(m, "GraphModule") THEN forward(t, g, m, args)
    ELSE call_module_except(Tracer_call_module(t, g, m, args), m, args)

-----------------------------------------------------------------------------
(* A trace with a _ModuleStackTracer: what the traced code does with modules *)

InitModuleStack ==
    /\ graph = <<>>
    /\ tensor_tracker = EmptyDict
    /\ symnode_tracker = EmptyDict
    /\ script_object_tracker = EmptyDict
    /\ thunks = <<>>
    /\ heap = <<>>
    /\ config = Config("real", TRUE, FALSE, {}, 0, {}, "any")
    /\ proxy_mode = None
    /\ CURRENT_DECOMPOSITION_TABLE = {}
    /\ phase = "tracing"
    /\ last = NoCall
    /\ ret = Returned(None)
    /\ modes = NoModes
    /\ makefx = None
    /\ module_tracer = _ModuleStackTracer(scope_root)
    /\ function_modes = NoFunctionModes
    /\ torch_fn = NoTorchFn

ModuleStep(t, g, r) ==
    /\ Cardinality(DOMAIN t.proxy_paths) <= MaxProxies
    /\ Len(g) <= MaxModuleCalls
    /\ module_tracer' = t
    /\ graph' = g
    /\ ret' = r
    /\ phase' = IF r.tag = "raise" THEN "failed" ELSE phase
    /\ UNCHANGED <<tensor_tracker, symnode_tracker, script_object_tracker, thunks, heap,
                   config, proxy_mode, CURRENT_DECOMPOSITION_TABLE, modes, makefx,
                   function_modes, torch_fn>>

\* scope_root.name in the traced code
RootGetattr ==
    /\ phase = "tracing"
    /\ \E name \in DOMAIN _modules(scope_root) :
          /\ last' = [op |-> "getattr", route |-> <<name>>, val |-> _modules(scope_root)[name]]
          /\ ModuleStep(Module__getattr__(module_tracer, scope_root, name).t, graph,
                        Returned(Module__getattr__(module_tracer, scope_root, name).v))

\* p.name in the traced code, for an AttrProxy p it holds
ProxyGetattr ==
    /\ phase = "tracing"
    /\ \E p \in DOMAIN module_tracer.proxy_paths :
          \E name \in DOMAIN _modules(base_of(module_tracer, p))
                      \cup DOMAIN _parameters(base_of(module_tracer, p)) :
             /\ last' = [op |-> "getattr",
                         route |-> Append(module_tracer.proxy_paths[p], name),
                         val |-> IF name \in DOMAIN _modules(base_of(module_tracer, p))
                                 THEN _modules(base_of(module_tracer, p))[name]
                                 ELSE _parameters(base_of(module_tracer, p))[name]]
             /\ ModuleStep(AttrProxy__getattr__(module_tracer, p, name).t, graph,
                           Returned(AttrProxy__getattr__(module_tracer, p, name).v))

\* p._modules in the traced code (children(), iteration of a container)
ProxyModules ==
    /\ phase = "tracing"
    /\ \E p \in DOMAIN module_tracer.proxy_paths :
          /\ submodule_keys(base_of(module_tracer, p)) # <<>>
          /\ last' = [op |-> "_modules", self |-> p]
          /\ ModuleStep(AttrProxy_modules(module_tracer, p,
                                          submodule_keys(base_of(module_tracer, p)),
                                          EmptyDict).t,
                        graph,
                        Returned(AttrProxy_modules(module_tracer, p,
                                                   submodule_keys(base_of(module_tracer, p)),
                                                   EmptyDict).v))

\* m(x) in the traced code: Module.__call__ is patched to the tracer's
\* call_module
CallModule ==
    /\ phase = "tracing"
    /\ \E m \in DOMAIN module_tracer.proxy_paths
                \cup {scope_root, Module("E"), Module("F"), GraphModuleObject("G")} :
          \E x \in {P(1)} :
             /\ last' = [op |-> "call_module", m |-> m, args |-> <<x>>]
             /\ ModuleStep(call_module(module_tracer, graph, m, <<x>>).t,
                           call_module(module_tracer, graph, m, <<x>>).g,
                           call_module(module_tracer, graph, m, <<x>>).ret)

NextModuleStack == RootGetattr \/ ProxyGetattr \/ ProxyModules \/ CallModule

SpecModuleStack == InitModuleStack /\ [][NextModuleStack]_vars

-----------------------------------------------------------------------------
(* Claims about the module paths, checked under SpecModuleStack *)

\* the traced code reads an attribute whose value is a module of the
\* hierarchy (not a GraphModule, not a parameter)
AttrAccessed == last'.op = "getattr" /\ isinstance(last'.val, "Module")

\* C21: when a module is reached by an attribute access, whatever the route
\* (D is the child d of both B and C), the access returns the one AttrProxy
\* the tracer keeps for it, the path recorded for that AttrProxy is the route
\* of this access, and an access by a second route overwrites the path of
\* the same AttrProxy: no other AttrProxy, and no other path, is made for it.
C21_OnePathLatestRoute ==
    [][ AttrAccessed =>
           LET m == last'.val
               t == module_tracer
               u == module_tracer'
           IN /\ m \in DOMAIN u.attr_proxy_map
              /\ ret' = Returned(u.attr_proxy_map[m])
              /\ u.proxy_paths[u.attr_proxy_map[m]] = last'.route
              /\ u.proxy_modules[u.attr_proxy_map[m]] = m
              /\ \A n \in DOMAIN u.attr_proxy_map :
                    u.attr_proxy_map[n] = u.attr_proxy_map[m] => n = m
              /\ m \in DOMAIN t.attr_proxy_map =>
                    /\ u.attr_proxy_map[m] = t.attr_proxy_map[m]
                    /\ DOMAIN u.proxy_paths = DOMAIN t.proxy_paths
              /\ \A q \in DOMAIN u.proxy_paths \ {u.attr_proxy_map[m]} :
                    /\ q \in DOMAIN t.proxy_paths
                    /\ u.proxy_paths[q] = t.proxy_paths[q]
      ]_vars

\* D was reached through B first (B's AttrProxy is older than D's, C's is
\* younger) and then through C: its path is now c.d
C21_Witness ==
    /\ last.op = "getattr"
    /\ last.val = Module("D")
    /\ {Module("B"), Module("C"), Module("D")} \subseteq DOMAIN module_tracer.attr_proxy_map
    /\ module_tracer.attr_proxy_map[Module("B")] = AttrProxy(1)
    /\ module_tracer.attr_proxy_map[Module("D")] = AttrProxy(2)
    /\ module_tracer.attr_proxy_map[Module("C")] = AttrProxy(3)
    /\ module_tracer.proxy_paths[AttrProxy(2)] = <<"c", "d">>
    /\ ret = Returned(AttrProxy(2))

\* C22: when call_module is given a module whose path cannot be resolved (it
\* is not scope_root, not an AttrProxy and not installed on the root), one
\* warning is issued, forward runs once on the given arguments outside any
\* new scope of the module stack, its result is returned and the trace goes on.
C22_UnresolvedPathWarns ==
    [][ ( /\ phase = "tracing"
          /\ last'.op = "call_module"
          /\ ~ isinstance(last'.m, "GraphModule")
          /\ path_of_module(module_tracer, last'.m).tag = "raise" ) =>
           /\ module_tracer' = [module_tracer EXCEPT !.warnings = Append(@, last'.m)]
           /\ graph' = Append(graph, ModuleNode(last'.m.name, last'.args,
                                                module_tracer.module_stack))
           /\ ret' = Returned(P(Len(graph')))
           /\ phase' = "tracing"
      ]_vars

C22_Witness ==
    /\ last.op = "call_module"
    /\ last.m = Module("E")
    /\ module_tracer.warnings = <<Module("E")>>
    /\ Len(graph) = 2
    /\ graph[2].target = "E"
    /\ graph[2].nn_module_stack = <<>>
    /\ ret = Returned(P(2))
    /\ phase = "tracing"

-----------------------------------------------------------------------------
(* Claims about the steps of proxy_call, checked under Spec *)

\* the state proxy_call starts from at this step
CallState == Machine(Tracer, HeapBefore, proxy_mode, CURRENT_DECOMPOSITION_TABLE, modes)

\* C23 as stated: under strict checking, a data-dependent operator whose
\* arguments are not all constant fails with the data-dependent error as
\* soon as one tensor argument is not simulated, also when another tensor
\* argument of the call is simulated.
C23_AnyRealTensorFails ==
    [][ ( /\ Dispatched
          /\ IsDataDependent(last'.func)
          /\ proxy_mode.enable_tracing
          /\ proxy_mode._error_on_data_dependent_ops
          /\ \A i \in TensorArgs(last'.args) : can_handle_tensor(CallState, last'.args[i])
          /\ ~ all_constant(CallState, last'.args)
          /\ \E i \in TensorArgs(last'.args) : ~ is_fake(heap[last'.args[i].id]) )
           => ret' = Raised(DataDependentError)
      ]_vars

\* the tensor arguments of the call that have a slot without captured constant
TrackedWithoutConstant ==
    {i \in TensorArgs(last'.args) :
        /\ in_tracker(Tracer, last'.args[i])
        /\ slot_of(Tracer, last'.args[i]).constant = None}

\* the tensor arguments of the call whose slot carries a captured constant
TrackedWithConstant ==
    {i \in TensorArgs(last'.args) :
        /\ in_tracker(Tracer, last'.args[i])
        /\ slot_of(Tracer, last'.args[i]).constant # None}

SymArgs == {i \in 1..Len(last'.args) : isinstance(last'.args[i], "S")}

LiteralSymArgs == {i \in SymArgs : sym_constant(last'.args[i].id) # None}

\* the call reaches the test of its arguments in proxy_call
ReachesRecording ==
    /\ Dispatched
    /\ proxy_mode.enable_tracing
    /\ \A i \in TensorArgs(last'.args) : can_handle_tensor(CallState, last'.args[i])
    /\ last'.func \notin CURRENT_DECOMPOSITION_TABLE
    /\ last'.func \notin CompositeImplicit

\* the tensor a recorded call returned carries a captured constant
OutputHasConstant ==
    /\ isinstance(ret'.val, "T")
    /\ tensor_tracker'[ret'.val.id].constant # None

\* C24: proxy_call takes the arguments as fully constant exactly when no
\* tensor argument has a slot without captured constant and no argument is a
\* symbolic scalar, literal or not: with a symbolic scalar among the
\* arguments the tensor a recorded call returns never gets a captured
\* constant.
C24_FullyConstant ==
    [][ ReachesRecording =>
           /\ all_constant(CallState, last'.args)
                 <=> (TrackedWithoutConstant = {} /\ SymArgs = {})
           /\ (RecordedDirectly /\ SymArgs # {}) => ~ OutputHasConstant
      ]_vars

\* a one-element tensor with a captured constant was multiplied by a
\* symbolic scalar that is a literal constant: the result has no constant
C24_Witness ==
    /\ last.op = "__torch_dispatch__"
    /\ last.func = "mul.Tensor"
    /\ last.args[2] = S(3, 2)
    /\ Len(graph) = last.nodes + 1
    /\ graph[Len(graph)].target = "mul.Tensor"
    /\ graph[Len(graph)].args[2] = L(2)
    /\ tensor_tracker[last.args[1].id].constant # None
    /\ heap[ret.val.id].numel = 1
    /\ tensor_tracker[ret.val.id].constant = None

\* C24 as stated: the arguments are fully constant exactly when no tracked
\* tensor argument lacks a captured constant and no argument is a
\* non-literal symbolic scalar; a literal one does not prevent it, so the
\* one-element result of a recorded call on constants and literal symbolic
\* scalars gets a captured constant.
C24_LiteralSymsAllowed ==
    [][ ReachesRecording =>
           /\ all_constant(CallState, last'.args)
                 <=> (TrackedWithoutConstant = {} /\ SymArgs \ LiteralSymArgs = {})
           /\ ( /\ RecordedDirectly
                /\ Tags(last'.func) = {}
                /\ TrackedWithoutConstant = {}
                /\ TrackedWithConstant # {}
                /\ SymArgs \ LiteralSymArgs = {}
                /\ isinstance(ret'.val, "T")
                /\ heap'[ret'.val.id].numel <= CONSTANT_NUMEL_LIMIT ) => OutputHasConstant
      ]_vars

\* a call of an operator other than lift_fresh has been recorded and has
\* returned a tensor
RecordedTensor ==
    /\ RecordedDirectly
    /\ last'.func # "lift_fresh.default"
    /\ isinstance(ret'.val, "T")

\* C25: the tensor returned by a recorded operator other than lift_fresh
\* gets a captured constant exactly when the operator is not tagged
\* nondeterministic_seeded, the arguments are fully constant (no tensor
\* argument with a slot without constant, no symbolic scalar) and at least
\* one tensor argument carries a captured constant, and the tensor has at
\* most CONSTANT_NUMEL_LIMIT elements.
C25_ConstantIffAllAndAny ==
    [][ RecordedTensor =>
           ( OutputHasConstant <=>
                /\ "nondeterministic_seeded" \notin Tags(last'.func)
                /\ TrackedWithoutConstant = {}
                /\ SymArgs = {}
                /\ TrackedWithConstant # {}
                /\ heap'[ret'.val.id].numel <= CONSTANT_NUMEL_LIMIT )
      ]_vars

\* a tensor with a captured constant was added to a tracked tensor without
\* one: the one-element result has no captured constant
C25_Witness ==
    /\ last.op = "__torch_dispatch__"
    /\ last.func = "add.Tensor"
    /\ Len(graph) = last.nodes + 1
    /\ graph[Len(graph)].target = "add.Tensor"
    /\ isinstance(last.args[2], "T")
    /\ \E i, j \in {1, 2} :
          /\ i # j
          /\ tensor_tracker[last.args[i].id].constant # None
          /\ tensor_tracker[last.args[j].id].constant = None
    /\ heap[ret.val.id].numel = 1
    /\ tensor_tracker[ret.val.id].constant = None

\* C25 as stated: the constant is computed when the operator is not
\* nondeterministic, the result has at most one element, and the arguments
\* are fully constant or at least one tensor argument carries a constant.
C25_ConstantIffAllOrAny ==
    [][ RecordedTensor =>
           ( OutputHasConstant <=>
                /\ "nondeterministic_seeded" \notin Tags(last'.func)
                /\ \/ all_constant(CallState, last'.args)
                   \/ TrackedWithConstant # {}
                /\ heap'[ret'.val.id].numel <= CONSTANT_NUMEL_LIMIT )
      ]_vars

\* the tensors given to lift_fresh so far: each is held by a get_attr node
\* that is the argument of a lift node
LiftInputs(g) ==
    {i \in 1..Len(heap) :
        \E n \in DOMAIN g :
           /\ g[n].op = "call_function"
           /\ g[n].target \in {"lift_fresh.default", "lift_fresh_copy.default"}
           /\ g[g[n].args[1].id].op = "get_attr"
           /\ g[g[n].args[1].id].args = <<T(i)>>}

\* C26: no call node has lift_fresh as its operator; a call of lift_fresh
\* is recorded as lift_fresh_copy and returns a new tensor, whose captured
\* constant (when it has at most one element) is a copy of the argument
\* that is neither the argument nor the result; and no in-place operator
\* called on a tensor that a lift returned changes the tensor the lift got.
C26_LiftFreshCopy ==
    [][ /\ \A n \in DOMAIN graph' :
              graph'[n].op = "call_function" => graph'[n].target # "lift_fresh.default"
        /\ (Dispatched /\ last'.func = "lift_fresh.default" /\ ret'.tag = "return") =>
              /\ Len(graph') = Len(graph) + 2
              /\ graph'[Len(graph')].target = "lift_fresh_copy.default"
              /\ isinstance(ret'.val, "T")
              /\ ret'.val # last'.args[1]
              /\ ret'.val.id \notin DOMAIN HeapBefore
              /\ heap'[last'.args[1].id] = HeapBefore[last'.args[1].id]
              /\ tensor_tracker'[ret'.val.id].constant =
                    IF heap'[ret'.val.id].numel <= CONSTANT_NUMEL_LIMIT
                    THEN Const(HeapBefore[last'.args[1].id].numel,
                               HeapBefore[last'.args[1].id].data)
                    ELSE None
        /\ ( /\ Dispatched
             /\ last'.func # "lift_fresh.default"
             /\ is_inplace_name(PacketName(last'.func))
             /\ last'.args[1].id - 1 \in LiftInputs(graph) ) =>
              \A i \in LiftInputs(graph) : heap'[i] = heap[i]
      ]_vars

\* add_ was called on the one-element tensor torch.tensor returned: the
\* tensor changed, the tensor lift_fresh got did not
C26_Witness ==
    /\ last.op = "__torch_dispatch__"
    /\ last.func = "add_.Tensor"
    /\ ret.tag = "return"
    /\ last.args[1].id - 1 \in LiftInputs(graph)
    /\ heap[last.args[1].id].numel = 1
    /\ heap[last.args[1].id - 1].data = 1
    /\ heap[last.args[1].id].data = 0
    /\ tensor_tracker[last.args[1].id].constant = Const(1, 0)

\* the traced function calls an operator: the state the call starts in
Outermost == Machine(Tracer, heap, proxy_mode, CURRENT_DECOMPOSITION_TABLE, modes)

\* the state in which the layer handles the call
Handling == __torch_dispatch__enter(Outermost)

\* the nodes the call of this step appended
NewNodes == (Len(graph) + 1)..Len(graph')

\* C27: when the intercepted operator has an entry in the decomposition
\* table, proxy_call runs the expansion with the same recording layer
\* entered again: the operators of the expansion are recorded into the same
\* graph, the call returns what the expansion returned (the tensor tracked
\* by the node of the expansion's last operator), no node is made for the
\* operator itself, and the layer and its decomp_layers count are afterwards
\* as before the call; when an operator of the expansion raises, the call
\* raises what it raised.
C27_DecompositionRecorded ==
    [][ ( /\ Dispatched
          /\ proxy_mode.enable_tracing
          /\ last'.func \in CURRENT_DECOMPOSITION_TABLE )
           => /\ \A n \in NewNodes : graph'[n].target # last'.func
              /\ last'.func = "silu.default" =>
                    /\ ret'.tag = "return"
                    /\ \E n \in NewNodes : graph'[n].target = "sigmoid.default"
                    /\ graph'[Len(graph')].args[2] = P(Len(graph') - 1)
              /\ ret'.tag = "return" =>
                    /\ graph'[Len(graph')].target = "mul.Tensor"
                    /\ isinstance(ret'.val, "T")
                    /\ tensor_tracker'[ret'.val.id].proxy = P(Len(graph'))
                    /\ modes' = modes
                    /\ proxy_mode' = proxy_mode
              /\ ret'.tag = "raise" =>
                    ret' = dispatch(with_decomp_layers(with_proxy_mode(Handling), 1),
                                    decomposition_first(last'.func),
                                    <<last'.args[1]>>).ret
      ]_vars

\* silu, which has an expansion in the table, was called: the graph got the
\* sigmoid node and the mul node of the expansion
C27_Witness ==
    /\ last.op = "__torch_dispatch__"
    /\ last.func = "silu.default"
    /\ ret.tag = "return"
    /\ Len(graph) >= last.nodes + 2
    /\ graph[Len(graph) - 1].target = "sigmoid.default"
    /\ graph[Len(graph)].target = "mul.Tensor"
    /\ \A n \in DOMAIN graph : graph[n].target # "silu.default"

\* the symbolic-scalar arguments of the call that are not literal and have
\* no slot in the tracer
UnboundSymArgs == {i \in SymArgs \ LiteralSymArgs : ~ in_tracker(Tracer, last'.args[i])}

\* the bound symbolic-scalar arguments whose thunk was not forced before
UnforcedSymArgs ==
    {i \in SymArgs \ (LiteralSymArgs \cup UnboundSymArgs) :
        thunks[slot_of(Tracer, last'.args[i]).id].r = None}

\* C28: the call node of a recorded call has, for every symbolic-scalar
\* argument that is a literal constant, the plain literal, and no node is
\* made for it; for every other symbolic scalar it has the proxy of the
\* scalar's thunk, which is forced by then (no node is made for it either
\* when the thunk was forced before); a call with a symbolic
\* scalar that is not literal and has no slot fails with the tracking error
\* and records nothing.
C28_SymArgsMapped ==
    [][ ( /\ ReachesRecording
          /\ ~ IsDataDependent(last'.func)
          /\ SymArgs # {} )
           => IF UnboundSymArgs # {}
              THEN /\ ret' = Raised("RuntimeError")
                   /\ graph' = graph
              ELSE /\ RecordedDirectly
                   /\ \A i \in LiteralSymArgs :
                         graph'[Len(graph')].args[i] = sym_constant(last'.args[i].id)
                   /\ \A i \in SymArgs \ LiteralSymArgs :
                         /\ thunks'[slot_of(Tracer, last'.args[i]).id].r # None
                         /\ graph'[Len(graph')].args[i]
                               = thunks'[slot_of(Tracer, last'.args[i]).id].r
                         /\ graph'[Len(graph')].args[i].id < Len(graph')
                   /\ (UnforcedSymArgs = {})
                         => Len(graph') = Len(graph) + 1
                               + Cardinality({i \in TensorArgs(last'.args) :
                                                 ~ in_tracker(Tracer, last'.args[i])})
      ]_vars

\* expand was called with a literal symbolic scalar: one node, with the
\* literal as argument
C28_Witness ==
    /\ last.op = "__torch_dispatch__"
    /\ last.func = "expand.default"
    /\ last.args[2] = S(3, 2)
    /\ Len(graph) = last.nodes + 1
    /\ graph[Len(graph)].args[2] = L(2)

\* expand was called with a symbolic scalar bound to an unforced thunk: the
\* shape query node and the call node that takes it
C28_WitnessForced ==
    /\ last.op = "__torch_dispatch__"
    /\ last.func = "expand.default"
    /\ Len(graph) = last.nodes + 2
    /\ graph[Len(graph) - 1].target \in QueryTargets
    /\ graph[Len(graph)].args[2] = P(Len(graph) - 1)

\* expand was called with a symbolic scalar the tracer has no slot for
C28_WitnessUnbound ==
    /\ last.op = "__torch_dispatch__"
    /\ last.func = "expand.default"
    /\ last.args[2] = S(9, 2)
    /\ ret = Raised("RuntimeError")
    /\ Len(graph) = last.nodes

\* the thunks that hold a shape query that has not run
UnforcedQueries ==
    {th \in DOMAIN thunks : thunks[th].r = None /\ thunks[th].f.fn \in QueryTargets}

\* the shape-query nodes of the graph
QueryNodes == {n \in DOMAIN graph : graph[n].target \in QueryTargets}

\* the symbolic scalars of the input tensors
InputSyms == UNION {SymNodesOf(heap[i].meta) : i \in 1..config.ninputs}

\* C29: tracking a tensor with symbolic sizes, strides, element count or
\* storage offset appends no node, it only binds thunks: after the inputs
\* are tracked the graph has the placeholders only, every symbolic scalar of
\* an input is bound and no thunk is forced; a shape-query node is appended
\* only by the step that forces a thunk that existed unforced before the
\* step, and as long as a query thunk is unforced the graph has no node of
\* its query.
C29_QueriesOnlyWhenForced ==
    [][ /\ (phase = "new" /\ phase' = "tracing") =>
              /\ \A n \in DOMAIN graph' : graph'[n].op = "placeholder"
              /\ \A th \in DOMAIN thunks' : thunks'[th].r = None
              /\ \A x \in InputSyms : x \in DOMAIN symnode_tracker'
        /\ \A n \in NewQueries :
              \E th \in DOMAIN thunks :
                 /\ thunks[th].r = None
                 /\ thunks[th].f.fn = graph'[n].target
                 /\ <<thunks[th].f.proxy>> \o thunks[th].f.args = graph'[n].args
                 /\ thunks'[th] = [f |-> None, r |-> P(n)]
        /\ \A th \in UnforcedQueries' :
              ~ \E n \in QueryNodes' :
                   /\ graph'[n].target = thunks'[th].f.fn
                   /\ graph'[n].args = <<thunks'[th].f.proxy>> \o thunks'[th].f.args
      ]_vars

\* the trace is over: one symbolic size of an input was used and has its
\* node, another was never used and has none
C29_Witness ==
    /\ phase = "done"
    /\ QueryNodes # {}
    /\ UnforcedQueries # {}
    /\ InputSyms # {}

\* the thunks of symbolic-scalar computations that this step forces
ForcedComputations ==
    {th \in DOMAIN thunks :
        /\ thunks[th].r = None
        /\ thunks[th].f.fn = "_compute_proxy"
        /\ th \in DOMAIN thunks'
        /\ thunks'[th].r # None}

\* C30: every node of the graph takes as arguments only nodes that are
\* earlier in the graph; when the thunk of a symbolic scalar computed from
\* other symbolic scalars is forced, those scalars' thunks are forced by
\* then, and their nodes, which the new node takes as arguments, are
\* earlier in the graph than the new node.
C30_ArgsAreEarlierNodes ==
    [][ /\ \A n \in DOMAIN graph' :
              \A i \in DOMAIN graph'[n].args :
                 isinstance(graph'[n].args[i], "P") => graph'[n].args[i].id < n
        /\ \A th \in ForcedComputations :
              /\ graph'[thunks'[th].r.id].target = thunks[th].f.func
              /\ \A i \in DOMAIN thunks[th].f.args :
                    isinstance(thunks[th].f.args[i], "S") =>
                       /\ thunks'[slot_of(Tracer, thunks[th].f.args[i]).id].r # None
                       /\ graph'[thunks'[th].r.id].args[i]
                             = thunks'[slot_of(Tracer, thunks[th].f.args[i]).id].r
                       /\ thunks'[slot_of(Tracer, thunks[th].f.args[i]).id].r.id
                             < thunks'[th].r.id
      ]_vars

\* a product of a size of an input was given to expand before the size was
\* used: the size's shape query, the product's node and the call node were
\* appended in this order
C30_Witness ==
    /\ last.op = "__torch_dispatch__"
    /\ last.func = "expand.default"
    /\ Len(graph) = last.nodes + 3
    /\ graph[Len(graph) - 2].target \in QueryTargets
    /\ graph[Len(graph) - 1].target = "mul"
    /\ graph[Len(graph) - 1].args[1] = P(Len(graph) - 2)
    /\ graph[Len(graph)].args[2] = P(Len(graph) - 1)

-----------------------------------------------------------------------------
(* Claims about the order of the steps of __enter__ and __exit__, checked
   under SpecModes *)

\* the layers and flags when the innermost scope is about to be left
Leaving == [modes EXCEPT !.scopes = SubSeq(@, 1, Len(@) - 1)]

\* C31: __exit__ of a recording layer first pops the layer (the previous
\* layer is still on enter_stack and the symbolic sub-layer's flag is
\* untouched), then pushes back the layer it had displaced, if any (the flag
\* still untouched), and only then leaves the symbolic scope, which puts the
\* flag back; __enter__ first enters the symbolic scope (the PROXY slot
\* still untouched), then displaces the previous layer onto enter_stack,
\* then pushes itself.
C31_EnterExitOrder ==
    [][ /\ (Exited /\ last'.scope.kind = "mode") =>
              LET l == last'.scope.l
                  st == __exit__steps(Leaving, l, last'.exc)
                  prev == Leaving.enter_stack[l][Len(Leaving.enter_stack[l])]
              IN /\ st[1].proxy = None
                 /\ st[1].enter_stack = Leaving.enter_stack
                 /\ st[1].sym_enable_tracing = Leaving.sym_enable_tracing
                 /\ st[2].proxy = prev
                 /\ Len(st[2].enter_stack[l]) = Len(Leaving.enter_stack[l]) - 1
                 /\ st[2].sym_enable_tracing = Leaving.sym_enable_tracing
                 /\ st[3].proxy = prev
                 /\ st[3].sym_enable_tracing[l]
                       = Leaving._managers[l][Len(Leaving._managers[l])]
                 /\ modes' = st[3]
        /\ (last'.op = "enter" /\ last'.scope.kind = "mode") =>
              LET l == last'.scope.l
                  st == __enter__steps(modes, l)
              IN /\ st[1].sym_enable_tracing[l]
                 /\ st[1]._managers[l] = Append(modes._managers[l], modes.sym_enable_tracing[l])
                 /\ st[1].proxy = modes.proxy
                 /\ st[1].enter_stack = modes.enter_stack
                 /\ st[2].proxy = None
                 /\ st[2].enter_stack[l] = Append(modes.enter_stack[l], modes.proxy)
                 /\ st[3].proxy = Mode(l)
                 /\ st[3].enter_stack = st[2].enter_stack
                 /\ [modes' EXCEPT !.scopes = modes.scopes] = st[3]
      ]_vars

\* the second instance was entered while the first was active and its own
\* symbolic sub-layer was disabled, and has been left at its end: the first
\* is active again and the flag is false again
C31_Witness ==
    /\ last.op = "exit"
    /\ ~ last.exc
    /\ last.scope.kind = "mode"
    /\ last.scope.l = 2
    /\ last.scope.before.proxy = Mode(1)
    /\ ~ last.scope.before.sym_enable_tracing[2]
    /\ modes.proxy = Mode(1)
    /\ ~ modes.sym_enable_tracing[2]

-----------------------------------------------------------------------------
(* Claims about the scopes of _trace_inner, checked under Spec *)

\* what an open scope is a scope of
ScopeName(sc) == IF sc.kind = "context" THEN sc.old.k ELSE sc.kind

ScopeNames(scopes) == [i \in DOMAIN scopes |-> ScopeName(scopes[i])]

\* the scopes of a session with configuration cfg, outermost first
SessionScopes(cfg) ==
    <<"decompose">>
    \o (IF cfg.tracing_mode \in {"fake", "symbolic"} THEN <<"FakeTensorMode">> ELSE <<>>)
    \o <<IF cfg.tracing_mode = "symbolic" \/ cfg.pre_dispatch
         THEN "enable_python_dispatcher" ELSE "nullcontext",
         IF cfg.pre_dispatch THEN "PreDispatchTorchFunctionMode" ELSE "nullcontext",
         "ProxySymDispatchMode",
         "TorchFunctionMetadataMode",
         "mode",
         "disable_autocast_cache",
         "_set_make_fx_tracer">>

\* C32: _trace_inner enters the decomposition-table scope, the fake tensor
\* mode (only when there is one), the python dispatcher scope (a
\* nullcontext unless the tracing mode is symbolic or pre_dispatch is set),
\* the pre-dispatch function layer (a nullcontext unless pre_dispatch is
\* set), the symbolic sub-layer, the metadata layer, the recording layer and
\* the autocast-cache-disabling scope, in this order (the scope that makes
\* the session the current one comes last); when the trace call returns or
\* fails they are left one by one, the last entered first, and none stays
\* open.
C32_ScopeOrder ==
    [][ /\ (phase = "new" /\ phase' = "tracing") =>
              /\ modes.scopes = <<>>
              /\ ScopeNames(modes'.scopes) = SessionScopes(config)
              /\ modes'.proxy = Mode(1)
              /\ CURRENT_DECOMPOSITION_TABLE' = config.decomposition_table
        /\ TraceEnds =>
              LET st == ExitStack__exit__steps(Ctx(modes, CURRENT_DECOMPOSITION_TABLE), 0,
                                               phase' = "failed")
                  n == Len(modes.scopes)
              IN /\ ScopeNames(modes.scopes) = SessionScopes(config)
                 /\ Len(st) = n
                 /\ \A i \in 1..n : st[i].md.scopes = SubSeq(modes.scopes, 1, n - i)
                 /\ modes' = st[n].md
                 /\ modes'.scopes = <<>>
                 /\ modes'.proxy = None
                 /\ CURRENT_DECOMPOSITION_TABLE' = {}
      ]_vars

\* a session with pre_dispatch set and no fake tensor mode is tracing: eight
\* scopes are open, the python dispatcher and the pre-dispatch function
\* layer among them
C32_Witness ==
    /\ phase = "tracing"
    /\ config.pre_dispatch
    /\ ScopeNames(modes.scopes)
          = <<"decompose", "enable_python_dispatcher", "PreDispatchTorchFunctionMode",
              "ProxySymDispatchMode", "TorchFunctionMetadataMode", "mode",
              "disable_autocast_cache", "_set_make_fx_tracer">>

\* a session under a fake tensor mode, whose python dispatcher scope is a
\* nullcontext, has failed: its nine scopes were left
C32_WitnessLeft ==
    /\ phase = "failed"
    /\ config.tracing_mode = "fake"
    /\ modes.scopes = <<>>
    /\ modes.proxy = None

-----------------------------------------------------------------------------
(* Claims about nested decompose scopes, checked under SpecModes *)

\* C33: for any nesting of decompose scopes, entering one makes its table
\* the active one (the empty table when None was given), leaving one, at
\* its end or by an exception, makes the table that was active just before
\* it was entered the active one again, and nothing else changes the
\* active table.
C33_DecomposeScopes ==
    [][ /\ (last'.op = "enter" /\ last'.scope.kind = "decompose") =>
              /\ CURRENT_DECOMPOSITION_TABLE'
                    = IF last'.scope.arg = NoTable THEN {} ELSE last'.scope.arg
              /\ modes'.scopes[Len(modes'.scopes)].before.table = CURRENT_DECOMPOSITION_TABLE
        /\ (Exited /\ last'.scope.kind = "decompose") =>
              CURRENT_DECOMPOSITION_TABLE' = last'.scope.before.table
        /\ CURRENT_DECOMPOSITION_TABLE' # CURRENT_DECOMPOSITION_TABLE =>
              /\ last'.op \in {"enter", "exit"}
              /\ last'.scope.kind = "decompose"
      ]_vars

\* a scope with one table was entered inside a scope with another, a scope
\* without table inside that, and the innermost was left by an exception:
\* the second table is active again
C33_Witness ==
    /\ last.op = "exit"
    /\ last.exc
    /\ last.scope.kind = "decompose"
    /\ CURRENT_DECOMPOSITION_TABLE = {"add.Tensor"}
    /\ Len(modes.scopes) = 2
    /\ modes.scopes[2].kind = "decompose"
    /\ modes.scopes[2].before.table = {"silu.default"}
    /\ last.scope.before.table = {"add.Tensor"}

-----------------------------------------------------------------------------
(* The torch-function modes: the metadata layer, the pre-dispatch layer and
   the scope that takes the pre-dispatch layer off the stack *)

\* the longest torch-function mode stack the checked runs start from
MaxModes == 3

\* the most invocations of one function a run counts
MaxCalls == 2

\* the deepest nesting of _temp_remove_pre_dispatch_torch_function_mode scopes
MaxNest == 2

\* a function that torch-function modes intercept
Func(name) == [k |-> "function", name |-> name]

\* torch.fx.node._side_effectful_need_to_be_preserved_pre_dispatch
_side_effectful_need_to_be_preserved_pre_dispatch ==
    {"_set_grad_enabled", "_enter_autocast", "_exit_autocast"}

\* the functions called in the checked runs
TorchFunctions == {"_set_grad_enabled", "add"}

\* the modes on the stack: the two of this file and a mode of another class,
\* which passes every call on
TorchFunctionMetadataMode == [k |-> "TorchFunctionMetadataMode"]
PreDispatchTorchFunctionMode == [k |-> "PreDispatchTorchFunctionMode"]
TorchFunctionMode == [k |-> "TorchFunctionMode"]

\* what the function's own implementation returns
func_result(func, args) == [k |-> "result", name |-> func, args |-> args]

\* the state a call through the stack works on: the stack, the tracer's
\* torch_fn fields and graph, the value returned, the implementations that
\* ran, and the stacks in effect inside and after the scopes of
\* with_temp_remove
FnState(stack, tf, g) ==
    [stack |-> stack, torch_fn |-> tf, graph |-> g, ret |-> Returned(None),
     called |-> <<>>, seen |-> <<>>, left |-> <<>>]

\* torch.overrides._pop_mode and _push_mode: the top of the stack is its end
overrides_pop_mode(stack) ==
    [stack |-> SubSeq(stack, 1, Len(stack) - 1), v |-> stack[Len(stack)]]

overrides_push_mode(stack, mode) == Append(stack, mode)

\* for mode in reversed(temp_elements): _push_mode(mode)
RECURSIVE push_reversed(_, _)
push_reversed(stack, temp_elements) ==
    IF temp_elements = <<>> THEN stack
    ELSE push_reversed(overrides_push_mode(stack, temp_elements[Len(temp_elements)]),
                       SubSeq(temp_elements, 1, Len(temp_elements) - 1))

\* self.tracer.torch_fn_counts.get(func, 0)
torch_fn_counts_get(tf, func) ==
    IF func \in DOMAIN tf.torch_fn_counts THEN tf.torch_fn_counts[func] ELSE 0

\* func(*args, **kwargs) under the modes of stack: the top mode's
\* __torch_function__ runs with the modes below it, and the function's own
\* implementation runs when no mode is left
RECURSIVE torch_function(_, _, _, _)

\* the metadata layer forgets to count
TorchFunctionMetadataMode__torch_function__uncounted(stack, func, args, st) ==
    torch_function(stack, func, args,
                   [st EXCEPT !.torch_fn.torch_fn_metadata = Func(func)])

\* TorchFunctionMetadataMode.__torch_function__
TorchFunctionMetadataMode__torch_function__(stack, func, args, st) ==
    torch_function(stack, func, args,
                   [st EXCEPT !.torch_fn =
                       [torch_fn_metadata |-> Func(func),
                        torch_fn_counts |->
                            Put(st.torch_fn.torch_fn_counts, func,
                                torch_fn_counts_get(st.torch_fn, func) + 1)]])

\* PreDispatchTorchFunctionMode.__torch_function__
PreDispatchTorchFunctionMode__torch_function__(stack, func, args, st) ==
    IF func \in _side_effectful_need_to_be_preserved_pre_dispatch
    THEN [st EXCEPT !.graph = Append(@, Node("call_function", func, args)),
                    !.ret = Returned(P(Len(st.graph) + 1))]
    ELSE torch_function(stack, func, args, st)

torch_function(stack, func, args, st) ==
    IF stack = <<>>
    THEN [st EXCEPT !.ret = Returned(func_result(func, args)),
                    !.called = Append(@, func)]
    ELSE IF overrides_pop_mode(stack).v = TorchFunctionMetadataMode
    THEN TorchFunctionMetadataMode__torch_function__(
             overrides_pop_mode(stack).stack, func, args, st)
    ELSE IF overrides_pop_mode(stack).v = PreDispatchTorchFunctionMode
    THEN PreDispatchTorchFunctionMode__torch_function__(
             overrides_pop_mode(stack).stack, func, args, st)
    ELSE torch_function(overrides_pop_mode(stack).stack, func, args, st)

\* _temp_remove_pre_dispatch_torch_function_mode, the while loop: modes are
\* popped until a PreDispatchTorchFunctionMode is
RECURSIVE _temp_remove_pop(_)
_temp_remove_pop(fr) ==
    IF Len(fr.stack) > 0
    THEN IF overrides_pop_mode(fr.stack).v = PreDispatchTorchFunctionMode
         THEN [fr EXCEPT !.stack = overrides_pop_mode(fr.stack).stack,
                         !.pre_dispatch_mode = overrides_pop_mode(fr.stack).v]
         ELSE _temp_remove_pop(
                  [fr EXCEPT !.stack = overrides_pop_mode(fr.stack).stack,
                             !.temp_elements =
                                 Append(@, overrides_pop_mode(fr.stack).v)])
    ELSE fr

\* _temp_remove_pre_dispatch_torch_function_mode up to its yield
_temp_remove_enter(stack) ==
    [_temp_remove_pop([stack |-> stack, temp_elements |-> <<>>,
                       pre_dispatch_mode |-> None])
        EXCEPT !.stack = push_reversed(@, _temp_remove_pop(
                   [stack |-> stack, temp_elements |-> <<>>,
                    pre_dispatch_mode |-> None]).temp_elements)]

\* the removed mode is put back on top of the stack
_temp_remove_exit_on_top(stack, fr) ==
    IF fr.pre_dispatch_mode # None
    THEN overrides_push_mode(stack, fr.pre_dispatch_mode)
    ELSE stack

\* _temp_remove_pre_dispatch_torch_function_mode, the finally clause
_temp_remove_exit(stack, fr) ==
    IF fr.pre_dispatch_mode # None
    THEN push_reversed(SubSeq(stack, 1, Len(stack) - Len(fr.temp_elements)),
                       Append(fr.temp_elements, fr.pre_dispatch_mode))
    ELSE stack

\* the body of the innermost scope: func is called, and exc tells whether an
\* exception is raised after it
temp_remove_body(st, func, args, exc) ==
    IF exc THEN [torch_function(st.stack, func, args, st) EXCEPT
                    !.ret = Raised("Exception")]
    ELSE torch_function(st.stack, func, args, st)

\* with _temp_remove_pre_dispatch_torch_function_mode(): ..., depth scopes
\* inside each other around the body; an exception leaves every scope
RECURSIVE with_temp_remove(_, _, _, _, _)

\* the scope is left after its body: the finally clause runs
with_temp_remove_leave(fr, st) ==
    [st EXCEPT !.stack = _temp_remove_exit(st.stack, fr),
               !.left = Append(@, _temp_remove_exit(st.stack, fr))]

\* the scope is inside: its body runs
with_temp_remove_inside(fr, st, depth, func, args, exc) ==
    with_temp_remove_leave(fr,
        IF depth > 1
        THEN with_temp_remove([st EXCEPT !.stack = fr.stack,
                                         !.seen = Append(@, fr.stack)],
                              depth - 1, func, args, exc)
        ELSE temp_remove_body([st EXCEPT !.stack = fr.stack,
                                         !.seen = Append(@, fr.stack)],
                              func, args, exc))

with_temp_remove(st, depth, func, args, exc) ==
    with_temp_remove_inside(_temp_remove_enter(st.stack), st, depth, func, args, exc)

\* the stacks a run starts from: at most one metadata layer (the tracer's),
\* any number of pre-dispatch layers and other modes
FunctionModeStacks ==
    {s \in UNION {[1..n -> {TorchFunctionMetadataMode, PreDispatchTorchFunctionMode,
                            TorchFunctionMode}] : n \in 0..MaxModes} :
        Cardinality({i \in DOMAIN s : s[i] = TorchFunctionMetadataMode}) <= 1}

\* the arguments of the calls
TorchFunctionArgs == {<<B(TRUE)>>}

InitFunctionModes ==
    /\ graph = <<>>
    /\ tensor_tracker = EmptyDict
    /\ symnode_tracker = EmptyDict
    /\ script_object_tracker = EmptyDict
    /\ thunks = <<>>
    /\ heap = <<>>
    /\ config = None
    /\ proxy_mode = None
    /\ CURRENT_DECOMPOSITION_TABLE = {}
    /\ phase = "tracing"
    /\ last = NoCall
    /\ ret = Returned(None)
    /\ modes = NoModes
    /\ makefx = None
    /\ module_tracer = None
    /\ function_modes \in FunctionModeStacks
    /\ torch_fn = NoTorchFn

\* the variables take the state a call leaves
SetFnState(r) ==
    /\ function_modes' = r.stack
    /\ torch_fn' = r.torch_fn
    /\ graph' = r.graph
    /\ ret' = r.ret

\* a function is called under the modes of the stack
TorchFunction ==
    \E func \in TorchFunctions, args \in TorchFunctionArgs :
        /\ torch_fn_counts_get(torch_fn, func) < MaxCalls
        /\ Len(graph) < MaxCalls
        /\ SetFnState(torch_function(function_modes, func, args,
                                     FnState(function_modes, torch_fn, graph)))
        /\ last' = [op |-> "torch_function", func |-> func, args |-> args,
                    called |-> torch_function(function_modes, func, args,
                                   FnState(function_modes, torch_fn, graph)).called]
        /\ UNCHANGED <<tensor_tracker, symnode_tracker, script_object_tracker,
                       thunks, heap, config, proxy_mode,
                       CURRENT_DECOMPOSITION_TABLE, phase, modes, makefx,
                       module_tracer>>

\* a function is called inside depth scopes that take the pre-dispatch layer
\* off the stack
WithTempRemove ==
    \E func \in TorchFunctions, args \in TorchFunctionArgs,
       depth \in 1..MaxNest, exc \in BOOLEAN :
        /\ torch_fn_counts_get(torch_fn, func) < MaxCalls
        /\ Len(graph) < MaxCalls
        /\ SetFnState(with_temp_remove(FnState(function_modes, torch_fn, graph),
                                       depth, func, args, exc))
        /\ last' = [op |-> "with_temp_remove", func |-> func, args |-> args,
                    depth |-> depth, exc |-> exc,
                    called |-> with_temp_remove(
                        FnState(function_modes, torch_fn, graph),
                        depth, func, args, exc).called,
                    seen |-> with_temp_remove(
                        FnState(function_modes, torch_fn, graph),
                        depth, func, args, exc).seen,
                    left |-> with_temp_remove(
                        FnState(function_modes, torch_fn, graph),
                        depth, func, args, exc).left]
        /\ UNCHANGED <<tensor_tracker, symnode_tracker, script_object_tracker,
                       thunks, heap, config, proxy_mode,
                       CURRENT_DECOMPOSITION_TABLE, phase, modes, makefx,
                       module_tracer>>

NextFunctionModes == TorchFunction \/ WithTempRemove

SpecFunctionModes == InitFunctionModes /\ [][NextFunctionModes]_vars

-----------------------------------------------------------------------------
(* Claims about the metadata layer, checked under SpecFunctionModes *)

\* the stack under which the function of the step is called
CallStack ==
    IF last'.op = "with_temp_remove" THEN last'.seen[Len(last'.seen)]
    ELSE function_modes

\* the call of func under stack gets to the metadata layer: no pre-dispatch
\* layer above it keeps the call
Reached(stack, func) ==
    \E i \in DOMAIN stack :
        /\ stack[i] = TorchFunctionMetadataMode
        /\ ~ /\ func \in _side_effectful_need_to_be_preserved_pre_dispatch
             /\ \E j \in (i + 1)..Len(stack) : stack[j] = PreDispatchTorchFunctionMode

\* what the call of the step gives under the modes below the metadata layer
BelowMetadata(i) ==
    torch_function(SubSeq(CallStack, 1, i - 1), last'.func, last'.args,
                   FnState(function_modes, torch_fn, graph))

\* C34: the counts start empty, and every call of a function f that gets to
\* the metadata layer adds one to torch_fn_counts[f], leaves the other counts
\* alone and makes f the torch_fn_metadata, while a call that does not get to
\* it leaves both alone; the layer returns what the call of f under the modes
\* below it returns, the implementations that ran and the nodes of the graph
\* are those of that call (the layer adds no node), and no slot table changes.
C34_MetadataLayer ==
    /\ torch_fn = NoTorchFn
    /\ [][ /\ \A g \in TorchFunctions :
                torch_fn_counts_get(torch_fn', g)
                    = torch_fn_counts_get(torch_fn, g)
                      + (IF g = last'.func /\ Reached(CallStack, g) THEN 1 ELSE 0)
           /\ Reached(CallStack, last'.func) =>
                torch_fn'.torch_fn_metadata = Func(last'.func)
           /\ ~Reached(CallStack, last'.func) => torch_fn' = torch_fn
           /\ \A i \in DOMAIN CallStack :
                (CallStack[i] = TorchFunctionMetadataMode
                    /\ Reached(CallStack, last'.func)) =>
                    /\ last'.op = "torch_function" => ret' = BelowMetadata(i).ret
                    /\ last'.called = BelowMetadata(i).called
                    /\ graph' = BelowMetadata(i).graph
           /\ UNCHANGED <<tensor_tracker, symnode_tracker, script_object_tracker>>
         ]_vars

\* add went through the layer twice and _set_grad_enabled once, last: the
\* layer is on top of a pre-dispatch layer and returned the node that layer
\* made, and no implementation ran
C34_Witness ==
    /\ last.op = "torch_function"
    /\ last.func = "_set_grad_enabled"
    /\ last.called = <<>>
    /\ function_modes # <<>>
    /\ function_modes[Len(function_modes)] = TorchFunctionMetadataMode
    /\ ret = Returned(P(1))
    /\ torch_fn.torch_fn_metadata = Func("_set_grad_enabled")
    /\ torch_fn_counts_get(torch_fn, "add") = 2
    /\ torch_fn_counts_get(torch_fn, "_set_grad_enabled") = 1

\* the layer is on top of modes that pass the call on: the implementation of
\* add ran and the layer returned its result
C34_WitnessReal ==
    /\ last.op = "torch_function"
    /\ last.func = "add"
    /\ last.called = <<"add">>
    /\ function_modes # <<>>
    /\ function_modes[Len(function_modes)] = TorchFunctionMetadataMode
    /\ ret = Returned(func_result("add", last.args))
    /\ torch_fn.torch_fn_metadata = Func("add")
    /\ torch_fn_counts_get(torch_fn, "add") = 2

-----------------------------------------------------------------------------
(* Claims about _temp_remove_pre_dispatch_torch_function_mode, checked under
   SpecFunctionModes *)

\* the places of the pre-dispatch layers in a stack
PreDispatchAt(s) == {i \in DOMAIN s : s[i] = PreDispatchTorchFunctionMode}

\* the highest place of a set of places
Topmost(is) == CHOOSE i \in is : \A j \in is : j <= i

\* a stack without its topmost pre-dispatch layer
WithoutTopmost(s) ==
    IF PreDispatchAt(s) = {} THEN s
    ELSE SubSeq(s, 1, Topmost(PreDispatchAt(s)) - 1)
            \o SubSeq(s, Topmost(PreDispatchAt(s)) + 1, Len(s))

\* the stack before the j-th scope of the step is entered
BeforeScope(j) == IF j = 1 THEN function_modes ELSE last'.seen[j - 1]

\* C39: inside each scope the stack is the stack before the scope without
\* its topmost PreDispatchTorchFunctionMode, the other modes in their places
\* (the same stack when it has no such mode); when the scope is left, at its
\* end or by an exception, the stack is the stack before the scope again.
C39_TempRemove ==
    [][ last'.op = "with_temp_remove" =>
          /\ Len(last'.seen) = last'.depth
          /\ Len(last'.left) = last'.depth
          /\ \A j \in 1..last'.depth :
                /\ last'.seen[j] = WithoutTopmost(BeforeScope(j))
                /\ last'.left[last'.depth - j + 1] = BeforeScope(j)
          /\ function_modes' = function_modes
      ]_vars

\* two scopes inside each other on a stack with two pre-dispatch layers
\* under the metadata layer, left by an exception
C39_Witness ==
    /\ last.op = "with_temp_remove"
    /\ last.exc
    /\ last.depth = 2
    /\ function_modes = <<PreDispatchTorchFunctionMode,
                          PreDispatchTorchFunctionMode, TorchFunctionMetadataMode>>
    /\ last.seen = << <<PreDispatchTorchFunctionMode, TorchFunctionMetadataMode>>,
                      <<TorchFunctionMetadataMode>> >>
    /\ last.left = << <<PreDispatchTorchFunctionMode, TorchFunctionMetadataMode>>,
                      function_modes >>

\* a scope on a stack with two other modes above its pre-dispatch layer: the
\* layer is taken out and put back under them
C39_WitnessBetween ==
    /\ last.op = "with_temp_remove"
    /\ last.depth = 1
    /\ function_modes = <<PreDispatchTorchFunctionMode, TorchFunctionMode,
                          TorchFunctionMetadataMode>>
    /\ last.seen = << <<TorchFunctionMode, TorchFunctionMetadataMode>> >>
    /\ last.left = <<function_modes>>

\* a scope on a stack without pre-dispatch layer
C39_WitnessNone ==
    /\ last.op = "with_temp_remove"
    /\ last.depth = 1
    /\ function_modes = <<TorchFunctionMode, TorchFunctionMetadataMode>>
    /\ last.seen = <<function_modes>>
    /\ last.left = <<function_modes>>

-----------------------------------------------------------------------------
(* Claims about the AttrProxy wrappers, checked under SpecModuleStack *)

\* the AttrProxy wrappers that exist: those attr_proxy_map holds, and those
\* of the dict the property _modules has just returned
LiveAttrProxies ==
    {module_tracer.attr_proxy_map[m] : m \in DOMAIN module_tracer.attr_proxy_map}
        \cup (IF last.op = "_modules" /\ ret.tag = "return"
              THEN {ret.val[key] : key \in DOMAIN ret.val}
              ELSE {})

\* C35: no module has two AttrProxy wrappers at a time, whichever of
\* getattr, AttrProxy.__getattr__ and the property _modules made them.
C35_OneWrapperPerModule ==
    \A p \in LiveAttrProxies, q \in LiveAttrProxies :
        module_tracer.proxy_modules[p] = module_tracer.proxy_modules[q] => p = q

-----------------------------------------------------------------------------
(* Claims about a recorded result that is an already bound symbolic scalar,
   checked under Spec *)

\* a recorded call returned a symbolic scalar that had a slot before the call
ReturnsBound ==
    /\ last'.op = "__torch_dispatch__"
    /\ ret'.tag = "return"
    /\ isinstance(ret'.val, "S")
    /\ in_tracker(Tracer, ret'.val)

\* the node a later use of the returned scalar gets, looked up before the
\* call and after it
UseBefore == fetch_sym_proxy(Tracer, ret'.val, heap)
UseAfter == fetch_sym_proxy(Tracer', ret'.val, heap')

\* C36: when a recorded call returns a symbolic scalar that already has a
\* slot, the slot and its thunk stay as they were, the node of the call is
\* appended to the graph all the same, and a later use of the scalar gets
\* the node of the earlier binding, not the node of the call.
C36_BoundResultKeepsThunk ==
    [][ ReturnsBound =>
          /\ slot_of(Tracer', ret'.val) = slot_of(Tracer, ret'.val)
          /\ thunks'[slot_of(Tracer, ret'.val).id] = thunks[slot_of(Tracer, ret'.val).id]
          /\ Len(graph') = Len(graph) + 1
          /\ SubSeq(graph', 1, Len(graph)) = graph
          /\ graph'[Len(graph')].target = last'.func
          /\ UseAfter.ret.tag = "return"
          /\ UseAfter.ret.val # P(Len(graph'))
          /\ UseAfter.tr.graph[UseAfter.ret.val.id].target # last'.func
          /\ UseAfter.tr.graph[UseAfter.ret.val.id]
                = UseBefore.tr.graph[UseBefore.ret.val.id]
      ]_vars

\* first_size of the input returned the input's size, whose thunk was made
\* when the input was tracked and is not forced: the node is in the graph
C36_Witness ==
    /\ last.op = "__torch_dispatch__"
    /\ last.func = "first_size.default"
    /\ ret = Returned(S(1, 1))
    /\ Len(graph) = last.nodes + 1
    /\ graph[Len(graph)].target = "first_size.default"
    /\ thunks[slot_of(Tracer, S(1, 1)).id].r = None

\* the returned scalar was used afterwards: the call that uses it has the
\* node of the size query as argument, not the node of first_size
C36_WitnessUse ==
    /\ last.op = "__torch_dispatch__"
    /\ last.func = "expand.default"
    /\ last.args[2] = S(1, 2)
    /\ \E i \in 1..last.nodes : graph[i].target = "first_size.default"
    /\ graph[graph[Len(graph)].args[2].id].target # "first_size.default"

-----------------------------------------------------------------------------
(* Claims about the flag of the symbolic sub-layer during an intercepted
   call, checked under Spec *)

\* the call gets to the expansions of proxy_call
Expands ==
    /\ proxy_mode.enable_tracing
    /\ \A i \in TensorArgs(last'.args) : can_handle_tensor(Handling, last'.args[i])

\* the state in which the expansion of the table runs
Decomposing == with_decomp_layers(with_proxy_mode(Handling), 1)

\* the flag of the session's symbolic sub-layer in a state of the call
SymTracing(ms) == ms.md.sym_enable_tracing[proxy_mode.id]

\* C37: while the layer handles a call of the traced function the flag of
\* its symbolic sub-layer is false; inside the expansion of a decomposition
\* (the layer entered again) it is true, false again while the layer handles
\* an operator of the expansion, and false after the expansion; when the
\* call returns or raises the flag is what it was before the call.
C37_SymTracingDuringDispatch ==
    [][ (last'.op = "__torch_dispatch__" /\ last'.func \in UserFuncs) =>
          /\ ~ SymTracing(Handling)
          /\ (Expands /\ last'.func \in CURRENT_DECOMPOSITION_TABLE) =>
                /\ SymTracing(Decomposing)
                /\ ~ SymTracing(__torch_dispatch__enter(Decomposing))
                /\ ~ SymTracing(maybe_handle_decomp(Handling, last'.func, last'.args))
          /\ (/\ Expands
              /\ last'.func \notin CURRENT_DECOMPOSITION_TABLE
              /\ ~ proxy_mode.pre_dispatch
              /\ last'.func \in CompositeImplicit) =>
                /\ SymTracing(with_proxy_mode(Handling))
                /\ ~ SymTracing(__torch_dispatch__enter(with_proxy_mode(Handling)))
                /\ ~ SymTracing(func_decompose(Handling, last'.func, last'.args))
          /\ SymTracing(__torch_dispatch__(Outermost, last'.func, last'.args))
                = SymTracing(Outermost)
          /\ ret'.tag = "return" =>
                modes'.sym_enable_tracing = modes.sym_enable_tracing
      ]_vars

\* silu was expanded by the table: two nodes, and the flag is as before
C37_Witness ==
    /\ last.op = "__torch_dispatch__"
    /\ last.func = "silu.default"
    /\ "silu.default" \in CURRENT_DECOMPOSITION_TABLE
    /\ ret.tag = "return"
    /\ Len(graph) = last.nodes + 2
    /\ modes.sym_enable_tracing[proxy_mode.id]

\* a call made while the traced code had set the flag to false: it is
\* false afterwards
C37_WitnessFalse ==
    /\ last.op = "__torch_dispatch__"
    /\ last.func = "clone.default"
    /\ ret.tag = "return"
    /\ ~ modes.sym_enable_tracing[proxy_mode.id]

\* a call that raised
C37_WitnessRaised ==
    /\ last.op = "__torch_dispatch__"
    /\ last.func = "item.default"
    /\ ret.tag = "raise"

-----------------------------------------------------------------------------
(* Claims about decomp_layers, checked under Spec *)

\* C38: decomp_layers counts the table decompositions that are running:
\* between the calls of the traced function none runs and decomp_layers is
\* 0, also after a call whose decomposition left by an exception.
C38_DecompLayersZero ==
    proxy_mode.decomp_layers = 0

=============================================================================
